---- MODULE Spec2Model ----
(***************************************************************************)
(* A model of the fete 6502/NES core: the memory bus (src/src/bus.rs),     *)
(* the CPU (src/src/cpu/mod.rs, src/src/cpu/status.rs,                     *)
(* src/src/cpu/addr_mode.rs) and the opcode table with its handlers        *)
(* (src/src/opcode/*.rs).                                                  *)
(*                                                                         *)
(* A panic (todo!, unreachable!, a failed debug assertion, an arithmetic   *)
(* overflow in a build with overflow checks) ends the program: it is       *)
(* recorded in the variable "panicked" and no operation runs after it.     *)
(***************************************************************************)
EXTENDS Integers, Naturals, Sequences, FiniteSets, TLC

VARIABLES
    reg_a,            \* Cpu::reg_a
    reg_x,            \* Cpu::reg_x
    reg_y,            \* Cpu::reg_y
    status,           \* Cpu::status, the bits of the Status flag set
    sp,               \* Cpu::sp
    pc,               \* Cpu::pc
    vram,             \* Bus::vram, the 2048 RAM bytes, kept as its non-zero cells
    prg_rom,          \* Bus::rom.prg_rom, a slice: its length and its non-zero cells
    panicked,         \* TRUE once an operation has panicked
    ret,              \* what the last operation was and what it returned
    running,          \* TRUE while Cpu::run's loop is executing
    nsteps,           \* how many operations the host has driven so far
    debug_build       \* the build profile: TRUE for dev (overflow checks and debug assertions on)

cpuRegs == <<reg_a, reg_x, reg_y, status, sp, pc>>
busVars == <<vram, prg_rom>>
envVars == <<debug_build>>
vars == <<reg_a, reg_x, reg_y, status, sp, pc, vram, prg_rom, panicked, ret, running,
          nsteps, debug_build>>

----------------------------------------------------------------------------
(* Bounds of the model *)

\* Operand bytes of the arithmetic programs lie within AluSpan of a multiple of
\* 64; the accumulator takes every value.
AluSpan == 2
\* Cartridge images have 0..MaxChrPages 8 KiB pages of CHR-ROM.
MaxChrPages == 1
\* Loaded programs have a length within LoadSpan of a length at which the
\* loop of load reaches another region of the address space.
LoadSpan == 1
\* Image lengths lie within LenSpan of the end of a field of the image.
LenSpan == 1
\* Probed addresses are a region boundary and the AddrSpan addresses below it.
AddrSpan == 1
\* Bytes written through the bus are drawn from 0..MaxVal.
MaxVal == 1
\* Cartridges have 0..MaxPrgPages 16 KiB pages of PRG-ROM.
MaxPrgPages == 2
\* Operand bytes of the instruction under test are 0 and 255 - k for k in 0..MaxOperand.
MaxOperand == 0
\* The host drives at most MaxSteps ticks and memory writes on a CPU.
MaxSteps == 2

----------------------------------------------------------------------------
(* Program constants *)

VRAM_LEN == 2048
RAM_RANGE == 0 .. 8191
ROM_RANGE == 32768 .. 65535
PPU_REGISTER_RANGE == 8192 .. 16383
CHR_ROM_PAGE_SIZE == 8192
PRG_ROM_PAGE_SIZE == 16384
STACK == 256
STACK_RESET == 253

U8 == 0 .. 255
U16 == 0 .. 65535

----------------------------------------------------------------------------
(* Arrays of bytes, kept as the function of their non-zero cells *)

Get(arr, i) == IF i \in DOMAIN arr THEN arr[i] ELSE 0

Put(arr, i, v) ==
    IF v = 0
    THEN [j \in (DOMAIN arr) \ {i} |-> arr[j]]
    ELSE [j \in (DOMAIN arr) \cup {i} |-> IF j = i THEN v ELSE arr[j]]

\* let v = ...; then the rest of the function body
Let(v, Rest(_)) == Rest(v)

\* [0; 2048]
ZeroVram == [j \in {} |-> 0]

\* slice.get(i): Some(&slice[i]) when i is in bounds
InBounds(slice, i) == i < slice.len

----------------------------------------------------------------------------
(* Bus: src/src/bus.rs *)

\* the pointer mirror_addr hands out: into vram, into prg_rom, none, or todo!()
SomeRef(region, idx) == [tag |-> "Some", region |-> region, idx |-> idx]
NoneRef == [tag |-> "None", region |-> "none", idx |-> 0]
TodoPanic == [tag |-> "Panic", region |-> "none", idx |-> 0]

\* mirror_addr masking RAM addresses with 0x0FFF instead of 0x07FF
mirror_addr_wide_mask(bus, addr) ==
    IF addr \in RAM_RANGE
    THEN Let(addr % 4096, LAMBDA mirror_down_addr :
             IF mirror_down_addr < VRAM_LEN
             THEN SomeRef("vram", mirror_down_addr)
             ELSE NoneRef)
    ELSE IF addr \in ROM_RANGE
    THEN Let(addr - 32768, LAMBDA off :
         Let(IF bus.prg_rom.len = 16384 /\ off >= 16384
                 THEN off % 16384
                 ELSE off, LAMBDA mirror_down_addr :
             IF InBounds(bus.prg_rom, mirror_down_addr)
             THEN SomeRef("prg_rom", mirror_down_addr)
             ELSE NoneRef))
    ELSE IF addr \in PPU_REGISTER_RANGE
    THEN TodoPanic
    ELSE NoneRef

\* mirror_addr that never folds the upper bank of a 16 KiB cartridge
mirror_addr_no_fold(bus, addr) ==
    IF addr \in RAM_RANGE
    THEN Let(addr % 2048, LAMBDA mirror_down_addr :
             IF mirror_down_addr < VRAM_LEN
             THEN SomeRef("vram", mirror_down_addr)
             ELSE NoneRef)
    ELSE IF addr \in ROM_RANGE
    THEN Let(addr - 32768, LAMBDA mirror_down_addr :
             IF InBounds(bus.prg_rom, mirror_down_addr)
             THEN SomeRef("prg_rom", mirror_down_addr)
             ELSE NoneRef)
    ELSE IF addr \in PPU_REGISTER_RANGE
    THEN TodoPanic
    ELSE NoneRef

mirror_addr(bus, addr) ==
    IF addr \in RAM_RANGE
    THEN Let(addr % 2048, LAMBDA mirror_down_addr :   \* addr & 0b0000_0111_1111_1111
             IF mirror_down_addr < VRAM_LEN
             THEN SomeRef("vram", mirror_down_addr)
             ELSE NoneRef)
    ELSE IF addr \in ROM_RANGE
    THEN Let(addr - 32768, LAMBDA off :
         Let(IF bus.prg_rom.len = 16384 /\ off >= 16384
                 THEN off % 16384
                 ELSE off, LAMBDA mirror_down_addr :
             IF InBounds(bus.prg_rom, mirror_down_addr)
             THEN SomeRef("prg_rom", mirror_down_addr)
             ELSE NoneRef))
    ELSE IF addr \in PPU_REGISTER_RANGE
    THEN TodoPanic
    ELSE NoneRef

\* *ptr
Deref(bus, ref) ==
    IF ref.region = "vram" THEN Get(bus.vram, ref.idx) ELSE Get(bus.prg_rom.data, ref.idx)

\* *ptr = val
StoreAt(bus, ref, val) ==
    IF ref.region = "vram"
    THEN [bus EXCEPT !.vram = Put(@, ref.idx, val)]
    ELSE [bus EXCEPT !.prg_rom.data = Put(@, ref.idx, val)]

\* mem_read giving 0xFF (an open bus) where nothing is mapped
mem_read_open_bus(bus, addr) ==
    Let(mirror_addr(bus, addr), LAMBDA m :
        [panic |-> m.tag = "Panic",
         val   |-> IF m.tag = "Some" THEN Deref(bus, m) ELSE 255])

mem_read(bus, addr) ==
    Let(mirror_addr(bus, addr), LAMBDA m :
        [panic |-> m.tag = "Panic",
         val   |-> IF m.tag = "Some" THEN Deref(bus, m) ELSE 0])

\* mem_write without the early return for the ROM range
mem_write_unguarded(bus, addr, val) ==
    Let(mirror_addr(bus, addr), LAMBDA m :
        IF m.tag = "Some"
        THEN [panic |-> FALSE, bus |-> StoreAt(bus, m, val)]
        ELSE [panic |-> m.tag = "Panic", bus |-> bus])

mem_write(bus, addr, val) ==
    IF addr \in ROM_RANGE
    THEN [panic |-> FALSE, bus |-> bus]
    ELSE Let(mirror_addr(bus, addr), LAMBDA m :
             IF m.tag = "Some"
             THEN [panic |-> FALSE, bus |-> StoreAt(bus, m, val)]
             ELSE [panic |-> m.tag = "Panic", bus |-> bus])

\* addr + 1 on a u16: panics on overflow in a build with overflow checks, wraps otherwise
AddU16(a, b) == [panic |-> debug_build /\ a + b > 65535, val |-> (a + b) % 65536]

\* u16::from_le_bytes([lo, hi])
FromLeBytes(lo, hi) == lo + 256 * hi
LoByte(w) == w % 256
HiByte(w) == w \div 256

mem_read_u16(bus, addr) ==
    Let(mem_read(bus, addr), LAMBDA lo :
        IF lo.panic THEN [panic |-> TRUE, val |-> 0]
        ELSE Let(AddU16(addr, 1), LAMBDA next :
                 IF next.panic THEN [panic |-> TRUE, val |-> 0]
                 ELSE Let(mem_read(bus, next.val), LAMBDA hi :
                          [panic |-> hi.panic,
                           val   |-> IF hi.panic THEN 0 ELSE FromLeBytes(lo.val, hi.val)])))

mem_write_u16(bus, addr, val) ==
    Let(mem_write(bus, addr, LoByte(val)), LAMBDA w1 :
        IF w1.panic THEN w1
        ELSE Let(AddU16(addr, 1), LAMBDA next :
                 IF next.panic THEN [panic |-> TRUE, bus |-> w1.bus]
                 ELSE mem_write(w1.bus, next.val, HiByte(val))))


----------------------------------------------------------------------------
(* Bit operations on unsigned integers *)

RECURSIVE BitAnd(_, _)
BitAnd(a, b) ==
    IF a = 0 \/ b = 0 THEN 0
    ELSE (a % 2) * (b % 2) + 2 * BitAnd(a \div 2, b \div 2)
BitOr(a, b) == a + b - BitAnd(a, b)
BitXor(a, b) == a + b - 2 * BitAnd(a, b)
\* !v on a u8
Not8(v) == 255 - v
WrapAdd8(a, b) == (a + b) % 256
WrapSub8(a, b) == (a - b + 256) % 256
WrapSub16(a, b) == (a - b + 65536) % 65536
WrapAdd16(a, b) == (a + b) % 65536

----------------------------------------------------------------------------
(* Status: src/src/cpu/status.rs *)

CARRY == 1
ZERO == 2
INTERRUPT_DISABLE == 4
DECIMAL_MODE == 8
BREAK == 16
BREAK2 == 32
OVERFLOW == 64
NEGATIVE == 128

\* status.contains(flag)
Contains(s, flag) == BitAnd(s, flag) = flag
\* status |= flag
Insert(s, flag) == BitOr(s, flag)
\* status &= !flag
Remove(s, flag) == BitAnd(s, Not8(flag))
\* status.set(flag, cond)
SetFlag(s, flag, cond) == IF cond THEN Insert(s, flag) ELSE Remove(s, flag)
\* Status::from_bits_truncate(bits): every bit of a byte is a flag
from_bits_truncate(bits) == BitAnd(bits, 255)

\* impl Default for Status
StatusDefault == 0

----------------------------------------------------------------------------
(* Cpu: src/src/cpu/mod.rs.  A Cpu value is a record; "panicked" marks a    *)
(* Cpu whose operation has panicked, at the state it was left in.          *)

Panic(c) == [c EXCEPT !.panicked = TRUE]

\* self.bus.mem_read(addr) inside a Cpu method
BusRead(c, addr) ==
    Let(mem_read(c.bus, addr), LAMBDA r :
        [c |-> IF r.panic THEN Panic(c) ELSE c, val |-> r.val])

\* self.bus.mem_write(addr, val) inside a Cpu method
BusWrite(c, addr, val) ==
    Let(mem_write(c.bus, addr, val), LAMBDA r :
        IF r.panic THEN Panic(c) ELSE [c EXCEPT !.bus = r.bus])

\* self.bus.mem_read_u16(addr) inside a Cpu method
BusReadU16(c, addr) ==
    Let(mem_read_u16(c.bus, addr), LAMBDA r :
        [c |-> IF r.panic THEN Panic(c) ELSE c, val |-> r.val])

cpu_new(bus) ==
    Let(mem_read_u16(bus, 65532), LAMBDA v :
        [reg_a |-> 0, reg_x |-> 0, reg_y |-> 0,
         status |-> StatusDefault,
         sp |-> STACK_RESET,
         pc |-> v.val,
         bus |-> bus,
         panicked |-> v.panic])

\* reset building a fresh Bus around the cartridge
reset_fresh_bus(c) == cpu_new([c.bus EXCEPT !.vram = ZeroVram])

\* replace_with(self, || unreachable!(), |self_| Self::new(self_.bus))
reset(c) == cpu_new(c.bus)

take(c) ==
    Let(BusRead(c, c.pc), LAMBDA r :
        IF r.c.panicked THEN [c |-> r.c, val |-> 0]
        ELSE [c |-> [c EXCEPT !.pc = WrapAdd16(c.pc, 1)], val |-> r.val])

\* take_u16 that advances the program counter by one byte only
take_u16_advances_one(c) ==
    Let(BusReadU16(c, c.pc), LAMBDA r :
        IF r.c.panicked THEN [c |-> r.c, val |-> 0]
        ELSE [c |-> [c EXCEPT !.pc = WrapAdd16(c.pc, 1)], val |-> r.val])

take_u16(c) ==
    Let(BusReadU16(c, c.pc), LAMBDA r :
        IF r.c.panicked THEN [c |-> r.c, val |-> 0]
        ELSE [c |-> [c EXCEPT !.pc = WrapAdd16(c.pc, 2)], val |-> r.val])

\* AddressingMode::size
ModeSize(mode) ==
    IF mode = "NoneAddressing" THEN 0
    ELSE IF mode \in {"Immediate", "ZeroPage", "ZeroPageX", "ZeroPageY",
                      "IndirectX", "IndirectY", "Relative"} THEN 1
    ELSE 2

\* the match of get_op_addr, before its debug assertion
ResolveMode(c, mode) ==
    CASE mode = "Immediate" ->
           [c |-> [c EXCEPT !.pc = WrapAdd16(c.pc, 1)], val |-> c.pc]
      [] mode = "ZeroPage" -> take(c)
      [] mode = "ZeroPageX" ->
           Let(take(c), LAMBDA t : [c |-> t.c, val |-> WrapAdd8(t.val, c.reg_x)])
      [] mode = "ZeroPageY" ->
           Let(take(c), LAMBDA t : [c |-> t.c, val |-> WrapAdd8(t.val, c.reg_y)])
      [] mode = "Absolute" -> take_u16(c)
      [] mode = "AbsoluteX" ->
           Let(take_u16(c), LAMBDA t : [c |-> t.c, val |-> WrapAdd16(t.val, c.reg_x)])
      [] mode = "AbsoluteY" ->
           Let(take_u16(c), LAMBDA t : [c |-> t.c, val |-> WrapAdd16(t.val, c.reg_y)])
      [] mode = "Indirect" ->
           Let(take_u16(c), LAMBDA t :
               IF t.c.panicked THEN t ELSE BusReadU16(t.c, t.val))
      [] mode = "IndirectX" ->
           Let(take(c), LAMBDA t :
               IF t.c.panicked THEN t
               ELSE Let(BusReadU16(t.c, t.val), LAMBDA r :
                        [c |-> r.c, val |-> WrapAdd16(r.val, c.reg_x) % 255]))
      [] mode = "IndirectY" ->
           Let(take(c), LAMBDA t :
               IF t.c.panicked THEN t
               ELSE Let(BusReadU16(t.c, t.val), LAMBDA r :
                        [c |-> r.c, val |-> WrapAdd16(r.val, c.reg_y)]))
      [] mode = "Relative" ->
           Let(take(c), LAMBDA t : [c |-> t.c, val |-> WrapAdd16(t.c.pc, t.val)])
      [] OTHER -> [c |-> Panic(c), val |-> 0]     \* unreachable!()

get_op_addr(c, mode) ==
    Let(ResolveMode(c, mode), LAMBDA r :
        IF r.c.panicked THEN [c |-> r.c, val |-> 0]
        ELSE IF debug_build
                /\ (c.pc + ModeSize(mode) > 65535 \/ c.pc + ModeSize(mode) # r.c.pc)
             THEN [c |-> Panic(r.c), val |-> 0]   \* debug_assert_eq!, or its overflowing sum
             ELSE r)

\* zero_and_neg_flags that never clears the zero flag
zero_and_neg_flags_sticky_zero(c, val) ==
    Let(IF val = 0 THEN Insert(c.status, ZERO) ELSE c.status, LAMBDA s1 :
    Let(IF BitAnd(val, 128) # 0 THEN Insert(s1, NEGATIVE) ELSE Remove(s1, NEGATIVE), LAMBDA s2 :
        [c EXCEPT !.status = s2]))

zero_and_neg_flags(c, val) ==
    Let(IF val = 0 THEN Insert(c.status, ZERO) ELSE Remove(c.status, ZERO), LAMBDA s1 :
    Let(IF BitAnd(val, 128) # 0 THEN Insert(s1, NEGATIVE) ELSE Remove(s1, NEGATIVE), LAMBDA s2 :
        [c EXCEPT !.status = s2]))

set_reg_a(c, val) == zero_and_neg_flags([c EXCEPT !.reg_a = val], val)

\* STACK.saturating_add(u16::from(self.sp))
StackAddr(c) == IF STACK + c.sp > 65535 THEN 65535 ELSE STACK + c.sp

push(c, val) ==
    Let(BusWrite(c, StackAddr(c), val), LAMBDA w :
        IF w.panicked THEN w ELSE [w EXCEPT !.sp = WrapSub8(c.sp, 1)])

push_u16(c, val) ==
    Let(push(c, HiByte(val)), LAMBDA c1 :
        IF c1.panicked THEN c1 ELSE push(c1, LoByte(val)))

\* pop with a saturating instead of a wrapping increment of SP
pop_saturating(c) ==
    Let([c EXCEPT !.sp = IF c.sp + 1 > 255 THEN 255 ELSE c.sp + 1], LAMBDA c1 :
        BusRead(c1, StackAddr(c1)))

pop(c) ==
    Let([c EXCEPT !.sp = WrapAdd8(c.sp, 1)], LAMBDA c1 :
        BusRead(c1, StackAddr(c1)))

pop_u16(c) ==
    Let(pop(c), LAMBDA lo :
        IF lo.c.panicked THEN [c |-> lo.c, val |-> 0]
        ELSE Let(pop(lo.c), LAMBDA hi :
                 [c |-> hi.c, val |-> IF hi.c.panicked THEN 0 ELSE FromLeBytes(lo.val, hi.val)]))

\* iterations lo .. hi - 1 of the for loop of load, in order: the first half
\* of them, then the second; a panic ends the loop
RECURSIVE LoadRange(_, _, _, _)
LoadRange(c, prog, lo, hi) ==
    IF c.panicked \/ lo >= hi THEN c
    ELSE IF hi = lo + 1
    THEN Let(AddU16(1536, lo), LAMBDA addr :      \* 0x0600 + i as u16
             IF addr.panic THEN Panic(c)
             ELSE BusWrite(c, addr.val, Get(prog.data, lo)))
    ELSE LoadRange(LoadRange(c, prog, lo, (lo + hi) \div 2), prog, (lo + hi) \div 2, hi)

\* Cpu::load: prog.iter().enumerate().take(usize::from(u16::MAX)), then the PC
load(c, prog) ==
    Let(LoadRange(c, prog, 0, IF prog.len < 65535 THEN prog.len ELSE 65535), LAMBDA c1 :
        IF c1.panicked THEN c1
        ELSE Let(BusReadU16(c1, 65532), LAMBDA v :
                 IF v.c.panicked THEN v.c
                 ELSE [v.c EXCEPT !.pc = IF v.val = 0 THEN 1536 ELSE v.val]))

----------------------------------------------------------------------------
(* Opcode handlers: src/src/opcode/*.rs.  Each takes the Cpu and the        *)
(* addressing mode of the table entry and gives the Cpu it leaves.         *)

\* let addr = cpu.get_op_addr(mode); let val = cpu.bus.mem_read(addr);
FetchOperand(c, mode) ==
    Let(get_op_addr(c, mode), LAMBDA a :
        IF a.c.panicked THEN [c |-> a.c, addr |-> 0, val |-> 0]
        ELSE Let(BusRead(a.c, a.val), LAMBDA r :
                 [c |-> r.c, addr |-> a.val, val |-> r.val]))

\* load.rs
lda(c, mode) ==
    Let(FetchOperand(c, mode), LAMBDA f :
        IF f.c.panicked THEN f.c ELSE set_reg_a(f.c, f.val))

ldx(c, mode) ==
    Let(FetchOperand(c, mode), LAMBDA f :
        IF f.c.panicked THEN f.c
        ELSE zero_and_neg_flags([f.c EXCEPT !.reg_x = f.val], f.val))

ldy(c, mode) ==
    Let(FetchOperand(c, mode), LAMBDA f :
        IF f.c.panicked THEN f.c
        ELSE zero_and_neg_flags([f.c EXCEPT !.reg_y = f.val], f.val))

sta(c, mode) ==
    Let(get_op_addr(c, mode), LAMBDA a :
        IF a.c.panicked THEN a.c ELSE BusWrite(a.c, a.val, a.c.reg_a))

stx(c, mode) ==
    Let(get_op_addr(c, mode), LAMBDA a :
        IF a.c.panicked THEN a.c ELSE BusWrite(a.c, a.val, a.c.reg_x))

sty(c, mode) ==
    Let(get_op_addr(c, mode), LAMBDA a :
        IF a.c.panicked THEN a.c ELSE BusWrite(a.c, a.val, a.c.reg_y))

\* transfer.rs, stack.rs
tax(c, mode) == zero_and_neg_flags([c EXCEPT !.reg_x = c.reg_a], c.reg_a)
tay(c, mode) == zero_and_neg_flags([c EXCEPT !.reg_y = c.reg_a], c.reg_a)
txa(c, mode) == set_reg_a(c, c.reg_x)
tya(c, mode) == set_reg_a(c, c.reg_y)
tsx(c, mode) == zero_and_neg_flags([c EXCEPT !.reg_x = c.sp], c.sp)
txs(c, mode) == [c EXCEPT !.sp = c.reg_x]

pha(c, mode) == push(c, c.reg_a)

pla(c, mode) ==
    Let(pop(c), LAMBDA r :
        IF r.c.panicked THEN r.c ELSE set_reg_a(r.c, r.val))

\* php pushing the status with BREAK only
php_break_only(c, mode) == push(c, BitOr(c.status, BREAK))

php(c, mode) == push(c, BitOr(BitOr(c.status, BREAK), BREAK2))

plp(c, mode) ==
    Let(pop(c), LAMBDA r :
        IF r.c.panicked THEN r.c ELSE [r.c EXCEPT !.status = from_bits_truncate(r.val)])

\* inc_dec.rs
inx(c, mode) ==
    Let(WrapAdd8(c.reg_x, 1), LAMBDA v : zero_and_neg_flags([c EXCEPT !.reg_x = v], v))
iny(c, mode) ==
    Let(WrapAdd8(c.reg_y, 1), LAMBDA v : zero_and_neg_flags([c EXCEPT !.reg_y = v], v))
dex(c, mode) ==
    Let(WrapSub8(c.reg_x, 1), LAMBDA v : zero_and_neg_flags([c EXCEPT !.reg_x = v], v))
dey(c, mode) ==
    Let(WrapSub8(c.reg_y, 1), LAMBDA v : zero_and_neg_flags([c EXCEPT !.reg_y = v], v))

inc(c, mode) ==
    Let(FetchOperand(c, mode), LAMBDA f :
        IF f.c.panicked THEN f.c
        ELSE Let(WrapAdd8(f.val, 1), LAMBDA val :
             Let(BusWrite(f.c, f.addr, val), LAMBDA w :
                 IF w.panicked THEN w ELSE zero_and_neg_flags(w, val))))

dec(c, mode) ==
    Let(FetchOperand(c, mode), LAMBDA f :
        IF f.c.panicked THEN f.c
        ELSE Let(WrapSub8(f.val, 1), LAMBDA val :
             Let(BusWrite(f.c, f.addr, val), LAMBDA w :
                 IF w.panicked THEN w ELSE zero_and_neg_flags(w, val))))

\* op_with_carry taking the carry out of the first addition only
op_with_carry_first_carry(c, mode, add) ==
    Let(FetchOperand(c, mode), LAMBDA f :
        IF f.c.panicked THEN f.c
        ELSE Let(IF add THEN f.val ELSE 255 - f.val, LAMBDA val :
             Let(f.c.reg_a, LAMBDA orig_a :
             Let(WrapAdd8(orig_a, val), LAMBDA init :
             Let(IF Contains(f.c.status, CARRY) THEN 1 ELSE 0, LAMBDA carry_in :
             Let(WrapAdd8(init, carry_in), LAMBDA out :
             Let(set_reg_a(f.c, out), LAMBDA c1 :
             Let(SetFlag(c1.status, CARRY, orig_a + val > 255), LAMBDA s1 :
             Let(BitAnd(BitAnd(Not8(BitXor(val, orig_a)), BitXor(val, out)), 128) # 0, LAMBDA ovf :
                 [c1 EXCEPT !.status = SetFlag(s1, OVERFLOW, ovf)])))))))))

\* op_with_carry subtracting with the two's complement of the operand
op_with_carry_twos_complement(c, mode, add) ==
    Let(FetchOperand(c, mode), LAMBDA f :
        IF f.c.panicked THEN f.c
        ELSE Let(IF add THEN f.val ELSE WrapSub8(0, f.val), LAMBDA val :
             Let(f.c.reg_a, LAMBDA orig_a :
             Let(WrapAdd8(orig_a, val), LAMBDA init :
             Let(IF Contains(f.c.status, CARRY) THEN 1 ELSE 0, LAMBDA carry_in :
             Let(WrapAdd8(init, carry_in), LAMBDA out :
             Let(set_reg_a(f.c, out), LAMBDA c1 :
             Let(SetFlag(c1.status, CARRY, orig_a + val > 255 \/ init + carry_in > 255), LAMBDA s1 :
             Let(BitAnd(BitAnd(Not8(BitXor(val, orig_a)), BitXor(val, out)), 128) # 0, LAMBDA ovf :
                 [c1 EXCEPT !.status = SetFlag(s1, OVERFLOW, ovf)])))))))))

\* op_with_carry that leaves the carry flag out of the sum
op_with_carry_no_carry_in(c, mode, add) ==
    Let(FetchOperand(c, mode), LAMBDA f :
        IF f.c.panicked THEN f.c
        ELSE Let(IF add THEN f.val ELSE 255 - f.val, LAMBDA val :
             Let(f.c.reg_a, LAMBDA orig_a :
             Let(WrapAdd8(orig_a, val), LAMBDA out :
             Let(set_reg_a(f.c, out), LAMBDA c1 :
             Let(SetFlag(c1.status, CARRY, orig_a + val > 255), LAMBDA s1 :
             Let(BitAnd(BitAnd(Not8(BitXor(val, orig_a)), BitXor(val, out)), 128) # 0, LAMBDA ovf :
                 [c1 EXCEPT !.status = SetFlag(s1, OVERFLOW, ovf)])))))))

\* arrith.rs
op_with_carry(c, mode, add) ==
    Let(FetchOperand(c, mode), LAMBDA f :
        IF f.c.panicked THEN f.c
        ELSE Let(IF add THEN f.val ELSE 255 - f.val, LAMBDA val :
             Let(f.c.reg_a, LAMBDA orig_a :
             Let(WrapAdd8(orig_a, val), LAMBDA init :
             Let(orig_a + val > 255, LAMBDA first_carry :
             Let(IF Contains(f.c.status, CARRY) THEN 1 ELSE 0, LAMBDA carry_in :
             Let(WrapAdd8(init, carry_in), LAMBDA out :
             Let(init + carry_in > 255, LAMBDA second_carry :
             Let(set_reg_a(f.c, out), LAMBDA c1 :
             Let(SetFlag(c1.status, CARRY, first_carry \/ second_carry), LAMBDA s1 :
             Let(BitAnd(BitAnd(Not8(BitXor(val, orig_a)), BitXor(val, out)), 128) # 0, LAMBDA ovf :
                 [c1 EXCEPT !.status = SetFlag(s1, OVERFLOW, ovf)])))))))))))

adc(c, mode) == op_with_carry(c, mode, TRUE)
sbc(c, mode) == op_with_carry(c, mode, FALSE)

\* the body shared by cmp, cpx and cpy, on the register they name
Compare(c, mode, reg) ==
    Let(FetchOperand(c, mode), LAMBDA f :
        IF f.c.panicked THEN f.c
        ELSE zero_and_neg_flags([f.c EXCEPT !.status = SetFlag(@, CARRY, reg >= f.val)],
                                WrapSub8(reg, f.val)))

cmp(c, mode) == Compare(c, mode, c.reg_a)
cpx(c, mode) == Compare(c, mode, c.reg_x)
cpy(c, mode) == Compare(c, mode, c.reg_y)

\* logic.rs
and(c, mode) ==
    Let(FetchOperand(c, mode), LAMBDA f :
        IF f.c.panicked THEN f.c ELSE set_reg_a(f.c, BitAnd(f.c.reg_a, f.val)))

eor(c, mode) ==
    Let(FetchOperand(c, mode), LAMBDA f :
        IF f.c.panicked THEN f.c ELSE set_reg_a(f.c, BitXor(f.c.reg_a, f.val)))

ora(c, mode) ==
    Let(FetchOperand(c, mode), LAMBDA f :
        IF f.c.panicked THEN f.c ELSE set_reg_a(f.c, BitOr(f.c.reg_a, f.val)))

bit(c, mode) ==
    Let(FetchOperand(c, mode), LAMBDA f :
        IF f.c.panicked THEN f.c
        ELSE Let(SetFlag(f.c.status, ZERO, BitAnd(f.c.reg_a, f.val) = 0), LAMBDA s1 :
             Let(SetFlag(s1, NEGATIVE, BitAnd(f.val, 128) # 0), LAMBDA s2 :
             Let(SetFlag(s2, OVERFLOW, BitAnd(f.val, 64) # 0), LAMBDA s3 :
                 [f.c EXCEPT !.status = s3]))))

\* shift.rs: the frame shared by asl, lsr, rol and ror; new_val and carry are
\* what the instruction computes from the value and the carry flag
ShiftWith(c, mode, NewVal(_, _), CarryOut(_)) ==
    Let(mode = "NoneAddressing", LAMBDA accum :
    Let(IF accum THEN [c |-> c, addr |-> 0, val |-> c.reg_a]
             ELSE FetchOperand(c, mode), LAMBDA f :
        IF f.c.panicked THEN f.c
        ELSE Let(IF Contains(f.c.status, CARRY) THEN 1 ELSE 0, LAMBDA carry_in :
             Let(NewVal(f.val, carry_in), LAMBDA new_val :
             Let([f.c EXCEPT !.status = SetFlag(@, CARRY, CarryOut(f.val))], LAMBDA c1 :
                 IF accum THEN set_reg_a(c1, new_val)
                 ELSE BusWrite(zero_and_neg_flags(c1, new_val), f.addr, new_val))))))

AslVal(v, cin) == (v * 2) % 256
LsrVal(v, cin) == v \div 2
RolVal(v, cin) == BitOr((v * 2) % 256, cin)
\* ror without the carry moved into bit 7
RorVal_no_carry_in(v, cin) == v \div 2
RorVal(v, cin) == BitOr(v \div 2, (cin * 128) % 256)
Bit7(v) == BitAnd(v, 128) # 0
Bit0(v) == BitAnd(v, 1) # 0

asl(c, mode) == ShiftWith(c, mode, AslVal, Bit7)
lsr(c, mode) == ShiftWith(c, mode, LsrVal, Bit0)
rol(c, mode) == ShiftWith(c, mode, RolVal, Bit7)
ror(c, mode) == ShiftWith(c, mode, RorVal, Bit0)

\* branch.rs
branch_if(c, mode, cond) ==
    Let(get_op_addr(c, mode), LAMBDA a :
        IF a.c.panicked THEN a.c
        ELSE IF cond THEN [a.c EXCEPT !.pc = a.val] ELSE a.c)

bcc(c, mode) == branch_if(c, mode, ~Contains(c.status, CARRY))
bcs(c, mode) == branch_if(c, mode, Contains(c.status, CARRY))
beq(c, mode) == branch_if(c, mode, Contains(c.status, ZERO))
bne(c, mode) == branch_if(c, mode, ~Contains(c.status, ZERO))
bmi(c, mode) == branch_if(c, mode, Contains(c.status, NEGATIVE))
bpl(c, mode) == branch_if(c, mode, ~Contains(c.status, NEGATIVE))
bvs(c, mode) == branch_if(c, mode, Contains(c.status, OVERFLOW))
bvc(c, mode) == branch_if(c, mode, ~Contains(c.status, OVERFLOW))

\* jmp.rs
jmp(c, mode) ==
    Let(get_op_addr(c, mode), LAMBDA a :
        IF a.c.panicked THEN a.c ELSE [a.c EXCEPT !.pc = a.val])

\* jsr pushing the address of its last operand byte
jsr_push_pc_minus_one(c, mode) ==
    Let(get_op_addr(c, mode), LAMBDA a :
        IF a.c.panicked THEN a.c
        ELSE Let(push_u16(a.c, WrapSub16(a.c.pc, 1)), LAMBDA c1 :
                 IF c1.panicked THEN c1 ELSE [c1 EXCEPT !.pc = a.val]))

jsr(c, mode) ==
    Let(get_op_addr(c, mode), LAMBDA a :
        IF a.c.panicked THEN a.c
        ELSE Let(push_u16(a.c, a.c.pc), LAMBDA c1 :
                 IF c1.panicked THEN c1 ELSE [c1 EXCEPT !.pc = a.val]))

rts(c, mode) ==
    Let(pop_u16(c), LAMBDA r :
        IF r.c.panicked THEN r.c ELSE [r.c EXCEPT !.pc = r.val])

\* flags.rs
sec(c, mode) == [c EXCEPT !.status = Insert(@, CARRY)]
clc(c, mode) == [c EXCEPT !.status = Remove(@, CARRY)]
sed(c, mode) == [c EXCEPT !.status = Insert(@, DECIMAL_MODE)]
cld(c, mode) == [c EXCEPT !.status = Remove(@, DECIMAL_MODE)]
sei(c, mode) == [c EXCEPT !.status = Insert(@, INTERRUPT_DISABLE)]
cli(c, mode) == [c EXCEPT !.status = Remove(@, INTERRUPT_DISABLE)]
\* clv that clears the carry flag as well
clv_clears_carry_too(c, mode) == [c EXCEPT !.status = Remove(Remove(@, OVERFLOW), CARRY)]
clv(c, mode) == [c EXCEPT !.status = Remove(@, OVERFLOW)]

\* sys.rs
brk(c, mode) ==
    Let(AddU16(c.pc, 1), LAMBDA n :   \* cpu.pc += 1
        IF n.panic THEN Panic(c)
        ELSE [c EXCEPT !.pc = n.val, !.status = Insert(@, BREAK)])

nop(c, mode) == c

\* todo!("interrupts")
rti(c, mode) == Panic(c)

----------------------------------------------------------------------------
(* The opcode table: src/src/opcode/mod.rs *)

Entry(name, mode, bytes, cycles) ==
    [name |-> name, mode |-> mode, bytes |-> bytes, cycles |-> cycles]

OPCODES ==
    0 :> Entry("brk", "NoneAddressing", 1, 7) @@
    1 :> Entry("ora", "IndirectX", 2, 6) @@
    5 :> Entry("ora", "ZeroPage", 2, 3) @@
    6 :> Entry("asl", "ZeroPage", 2, 5) @@
    8 :> Entry("php", "NoneAddressing", 1, 3) @@
    9 :> Entry("ora", "Immediate", 2, 2) @@
    10 :> Entry("asl", "NoneAddressing", 1, 2) @@
    13 :> Entry("ora", "Absolute", 3, 4) @@
    14 :> Entry("asl", "Absolute", 3, 6) @@
    16 :> Entry("bpl", "Relative", 2, 2) @@
    17 :> Entry("ora", "IndirectY", 2, 5) @@
    21 :> Entry("ora", "ZeroPageX", 2, 4) @@
    22 :> Entry("asl", "ZeroPageX", 2, 6) @@
    24 :> Entry("clc", "NoneAddressing", 1, 2) @@
    25 :> Entry("ora", "AbsoluteY", 3, 4) @@
    29 :> Entry("ora", "AbsoluteX", 3, 4) @@
    30 :> Entry("asl", "AbsoluteX", 3, 7) @@
    32 :> Entry("jsr", "Absolute", 3, 6) @@
    33 :> Entry("and", "IndirectX", 2, 6) @@
    36 :> Entry("bit", "ZeroPage", 2, 3) @@
    37 :> Entry("and", "ZeroPage", 2, 3) @@
    38 :> Entry("rol", "ZeroPage", 2, 5) @@
    40 :> Entry("plp", "NoneAddressing", 1, 3) @@
    41 :> Entry("and", "Immediate", 2, 2) @@
    42 :> Entry("rol", "NoneAddressing", 1, 2) @@
    44 :> Entry("bit", "Absolute", 3, 4) @@
    45 :> Entry("and", "Absolute", 3, 4) @@
    46 :> Entry("rol", "Absolute", 3, 6) @@
    48 :> Entry("bmi", "Relative", 2, 2) @@
    49 :> Entry("and", "IndirectY", 2, 5) @@
    53 :> Entry("and", "ZeroPageX", 2, 4) @@
    54 :> Entry("rol", "ZeroPageX", 2, 6) @@
    56 :> Entry("sec", "NoneAddressing", 1, 2) @@
    57 :> Entry("and", "AbsoluteY", 3, 4) @@
    61 :> Entry("and", "AbsoluteX", 3, 4) @@
    62 :> Entry("rol", "AbsoluteX", 3, 7) @@
    64 :> Entry("rti", "NoneAddressing", 1, 6) @@
    65 :> Entry("eor", "IndirectX", 2, 6) @@
    69 :> Entry("eor", "ZeroPage", 2, 3) @@
    70 :> Entry("lsr", "ZeroPage", 2, 5) @@
    72 :> Entry("pha", "NoneAddressing", 1, 3) @@
    73 :> Entry("eor", "Immediate", 2, 2) @@
    74 :> Entry("lsr", "NoneAddressing", 1, 2) @@
    76 :> Entry("jmp", "Absolute", 1, 3) @@
    77 :> Entry("eor", "Absolute", 3, 4) @@
    78 :> Entry("lsr", "Absolute", 3, 6) @@
    80 :> Entry("bvc", "Relative", 2, 2) @@
    81 :> Entry("eor", "IndirectY", 2, 5) @@
    85 :> Entry("eor", "ZeroPageX", 2, 4) @@
    86 :> Entry("lsr", "ZeroPageX", 2, 6) @@
    88 :> Entry("cli", "NoneAddressing", 1, 2) @@
    89 :> Entry("eor", "AbsoluteY", 3, 4) @@
    93 :> Entry("eor", "AbsoluteX", 3, 4) @@
    94 :> Entry("lsr", "AbsoluteX", 3, 7) @@
    96 :> Entry("rts", "NoneAddressing", 1, 6) @@
    97 :> Entry("adc", "IndirectX", 2, 6) @@
    101 :> Entry("adc", "ZeroPage", 2, 3) @@
    102 :> Entry("ror", "ZeroPage", 2, 5) @@
    104 :> Entry("pla", "NoneAddressing", 1, 3) @@
    105 :> Entry("adc", "Immediate", 2, 2) @@
    106 :> Entry("ror", "NoneAddressing", 1, 2) @@
    108 :> Entry("jmp", "Indirect", 1, 5) @@
    109 :> Entry("adc", "Absolute", 3, 4) @@
    110 :> Entry("ror", "Absolute", 3, 6) @@
    112 :> Entry("bvs", "Relative", 2, 2) @@
    113 :> Entry("adc", "IndirectY", 2, 5) @@
    117 :> Entry("adc", "ZeroPageX", 2, 4) @@
    118 :> Entry("ror", "ZeroPageX", 2, 6) @@
    120 :> Entry("sei", "NoneAddressing", 1, 2) @@
    121 :> Entry("adc", "AbsoluteY", 3, 4) @@
    125 :> Entry("adc", "AbsoluteX", 3, 4) @@
    126 :> Entry("ror", "AbsoluteX", 3, 7) @@
    129 :> Entry("sta", "IndirectX", 2, 6) @@
    132 :> Entry("sty", "ZeroPage", 2, 3) @@
    133 :> Entry("sta", "ZeroPage", 2, 3) @@
    134 :> Entry("stx", "ZeroPage", 2, 3) @@
    136 :> Entry("dey", "NoneAddressing", 1, 2) @@
    138 :> Entry("txa", "NoneAddressing", 1, 2) @@
    140 :> Entry("sty", "Absolute", 3, 4) @@
    141 :> Entry("sta", "Absolute", 3, 4) @@
    142 :> Entry("stx", "Absolute", 3, 4) @@
    144 :> Entry("bcc", "Relative", 2, 2) @@
    145 :> Entry("sta", "IndirectY", 2, 6) @@
    148 :> Entry("sty", "ZeroPageX", 2, 4) @@
    149 :> Entry("sta", "ZeroPageX", 2, 4) @@
    150 :> Entry("stx", "ZeroPageY", 2, 4) @@
    152 :> Entry("tya", "NoneAddressing", 1, 2) @@
    153 :> Entry("sta", "AbsoluteY", 3, 5) @@
    154 :> Entry("txs", "NoneAddressing", 1, 2) @@
    157 :> Entry("sta", "AbsoluteX", 3, 5) @@
    160 :> Entry("ldy", "Immediate", 2, 2) @@
    161 :> Entry("lda", "IndirectX", 2, 6) @@
    162 :> Entry("ldx", "Immediate", 2, 2) @@
    164 :> Entry("ldy", "ZeroPage", 2, 3) @@
    165 :> Entry("lda", "ZeroPage", 2, 3) @@
    166 :> Entry("ldx", "ZeroPage", 2, 3) @@
    168 :> Entry("tay", "NoneAddressing", 1, 2) @@
    169 :> Entry("lda", "Immediate", 2, 2) @@
    170 :> Entry("tax", "NoneAddressing", 1, 2) @@
    172 :> Entry("ldy", "Absolute", 3, 4) @@
    173 :> Entry("lda", "Absolute", 3, 4) @@
    174 :> Entry("ldx", "Absolute", 3, 4) @@
    176 :> Entry("bcs", "Relative", 2, 2) @@
    177 :> Entry("lda", "IndirectY", 2, 5) @@
    180 :> Entry("ldy", "ZeroPageX", 2, 4) @@
    181 :> Entry("lda", "ZeroPageX", 2, 4) @@
    182 :> Entry("ldx", "ZeroPageY", 2, 4) @@
    184 :> Entry("clv", "NoneAddressing", 1, 2) @@
    185 :> Entry("lda", "AbsoluteY", 3, 4) @@
    186 :> Entry("tsx", "NoneAddressing", 1, 2) @@
    188 :> Entry("ldy", "AbsoluteX", 3, 4) @@
    189 :> Entry("lda", "AbsoluteX", 3, 4) @@
    190 :> Entry("ldx", "AbsoluteY", 3, 4) @@
    192 :> Entry("cpy", "Immediate", 2, 2) @@
    193 :> Entry("cmp", "IndirectX", 2, 6) @@
    196 :> Entry("cpy", "ZeroPage", 2, 3) @@
    197 :> Entry("cmp", "ZeroPage", 2, 3) @@
    198 :> Entry("dec", "ZeroPage", 2, 5) @@
    200 :> Entry("iny", "NoneAddressing", 1, 2) @@
    201 :> Entry("cmp", "Immediate", 2, 2) @@
    202 :> Entry("dex", "NoneAddressing", 1, 2) @@
    204 :> Entry("cpy", "Absolute", 3, 4) @@
    205 :> Entry("cmp", "Absolute", 3, 4) @@
    206 :> Entry("dec", "Absolute", 3, 6) @@
    208 :> Entry("bne", "Relative", 2, 2) @@
    209 :> Entry("cmp", "IndirectY", 2, 5) @@
    213 :> Entry("cmp", "ZeroPageX", 2, 4) @@
    214 :> Entry("dec", "ZeroPageX", 2, 6) @@
    216 :> Entry("cld", "NoneAddressing", 1, 2) @@
    217 :> Entry("cmp", "AbsoluteY", 3, 4) @@
    221 :> Entry("cmp", "AbsoluteX", 3, 4) @@
    222 :> Entry("dec", "AbsoluteX", 3, 7) @@
    224 :> Entry("cpx", "Immediate", 2, 2) @@
    225 :> Entry("sbc", "IndirectX", 2, 6) @@
    228 :> Entry("cpx", "ZeroPage", 2, 3) @@
    229 :> Entry("sbc", "ZeroPage", 2, 3) @@
    230 :> Entry("inc", "ZeroPage", 2, 5) @@
    232 :> Entry("inx", "NoneAddressing", 1, 2) @@
    233 :> Entry("sbc", "Immediate", 2, 2) @@
    234 :> Entry("nop", "NoneAddressing", 1, 2) @@
    236 :> Entry("cpx", "Absolute", 3, 4) @@
    237 :> Entry("sbc", "Absolute", 3, 4) @@
    238 :> Entry("inc", "Absolute", 3, 6) @@
    240 :> Entry("beq", "Relative", 2, 2) @@
    241 :> Entry("sbc", "IndirectY", 2, 5) @@
    245 :> Entry("sbc", "ZeroPageX", 2, 4) @@
    246 :> Entry("inc", "ZeroPageX", 2, 6) @@
    248 :> Entry("sed", "NoneAddressing", 1, 2) @@
    249 :> Entry("sbc", "AbsoluteY", 3, 4) @@
    253 :> Entry("sbc", "AbsoluteX", 3, 4) @@
    254 :> Entry("inc", "AbsoluteX", 3, 7)

\* (opcode.op)(self, opcode.mode): the handler the table entry names
CallOp(c, e) ==
    CASE e.name = "lda" -> lda(c, e.mode) [] e.name = "ldx" -> ldx(c, e.mode)
      [] e.name = "ldy" -> ldy(c, e.mode) [] e.name = "sta" -> sta(c, e.mode)
      [] e.name = "stx" -> stx(c, e.mode) [] e.name = "sty" -> sty(c, e.mode)
      [] e.name = "tax" -> tax(c, e.mode) [] e.name = "tay" -> tay(c, e.mode)
      [] e.name = "txa" -> txa(c, e.mode) [] e.name = "tya" -> tya(c, e.mode)
      [] e.name = "txs" -> txs(c, e.mode) [] e.name = "tsx" -> tsx(c, e.mode)
      [] e.name = "pha" -> pha(c, e.mode) [] e.name = "pla" -> pla(c, e.mode)
      [] e.name = "php" -> php(c, e.mode) [] e.name = "plp" -> plp(c, e.mode)
      [] e.name = "inx" -> inx(c, e.mode) [] e.name = "iny" -> iny(c, e.mode)
      [] e.name = "inc" -> inc(c, e.mode) [] e.name = "dex" -> dex(c, e.mode)
      [] e.name = "dey" -> dey(c, e.mode) [] e.name = "dec" -> dec(c, e.mode)
      [] e.name = "adc" -> adc(c, e.mode) [] e.name = "sbc" -> sbc(c, e.mode)
      [] e.name = "cmp" -> cmp(c, e.mode) [] e.name = "cpx" -> cpx(c, e.mode)
      [] e.name = "cpy" -> cpy(c, e.mode) [] e.name = "and" -> and(c, e.mode)
      [] e.name = "eor" -> eor(c, e.mode) [] e.name = "ora" -> ora(c, e.mode)
      [] e.name = "bit" -> bit(c, e.mode) [] e.name = "asl" -> asl(c, e.mode)
      [] e.name = "lsr" -> lsr(c, e.mode) [] e.name = "rol" -> rol(c, e.mode)
      [] e.name = "ror" -> ror(c, e.mode) [] e.name = "bcc" -> bcc(c, e.mode)
      [] e.name = "bcs" -> bcs(c, e.mode) [] e.name = "beq" -> beq(c, e.mode)
      [] e.name = "bne" -> bne(c, e.mode) [] e.name = "bmi" -> bmi(c, e.mode)
      [] e.name = "bpl" -> bpl(c, e.mode) [] e.name = "bvc" -> bvc(c, e.mode)
      [] e.name = "bvs" -> bvs(c, e.mode) [] e.name = "jmp" -> jmp(c, e.mode)
      [] e.name = "jsr" -> jsr(c, e.mode) [] e.name = "rts" -> rts(c, e.mode)
      [] e.name = "sec" -> sec(c, e.mode) [] e.name = "clc" -> clc(c, e.mode)
      [] e.name = "sed" -> sed(c, e.mode) [] e.name = "cld" -> cld(c, e.mode)
      [] e.name = "sei" -> sei(c, e.mode) [] e.name = "cli" -> cli(c, e.mode)
      [] e.name = "clv" -> clv(c, e.mode) [] e.name = "rti" -> rti(c, e.mode)
      [] e.name = "nop" -> nop(c, e.mode) [] e.name = "brk" -> brk(c, e.mode)

\* self.pc.saturating_sub(1)
SaturatingSub16(a, b) == IF a < b THEN 0 ELSE a - b

\* Cpu::tick: the Cpu it leaves and what it returns; log_info tells whether the
\* logger is enabled at Info level during the call.  res is "Continue" for
\* Ok(false), "Halt" for Ok(true), "InvalidOpcode" for the error (with the
\* error's opcode and offset) and "Panic" when the tick never returns.
TickResult(c, res, opcode, offset) ==
    [c |-> c, res |-> res, opcode |-> opcode, offset |-> offset]

tick(c, log_info) ==
    Let(take(c), LAMBDA t :
    Let(t.val, LAMBDA opcode :
        IF t.c.panicked THEN TickResult(t.c, "Panic", 0, 0)
        ELSE IF opcode \in DOMAIN OPCODES
        THEN \* log::info!(.., self.pc - 1, ..) evaluates its arguments when enabled
             IF log_info /\ debug_build /\ t.c.pc < 1
             THEN TickResult(Panic(t.c), "Panic", opcode, 0)
             ELSE Let(CallOp(t.c, OPCODES[opcode]), LAMBDA c1 :
                      IF c1.panicked THEN TickResult(c1, "Panic", opcode, 0)
                      ELSE TickResult(c1, IF opcode = 0 THEN "Halt" ELSE "Continue",
                                      opcode, 0))
        ELSE TickResult(t.c, "InvalidOpcode", opcode, SaturatingSub16(t.c.pc, 1))))

----------------------------------------------------------------------------
(* The tracer: src/src/cpu/trace.rs.  Text is built as it is printed.       *)

HexDigits == <<"0", "1", "2", "3", "4", "5", "6", "7", "8", "9",
               "A", "B", "C", "D", "E", "F">>
\* {:02X}
Hex2(v) == HexDigits[(v \div 16) + 1] \o HexDigits[(v % 16) + 1]
\* {:04X}
Hex4(v) == Hex2(v \div 256) \o Hex2(v % 256)

\* f.write_char(' ') n times
RECURSIVE Spaces(_)
Spaces(n) == IF n <= 0 THEN "" ELSE " " \o Spaces(n - 1)

\* c.to_ascii_uppercase() over the name of a table entry
UpperNames ==
    [adc |-> "ADC", and |-> "AND", asl |-> "ASL", bcc |-> "BCC",
     bcs |-> "BCS", beq |-> "BEQ", bit |-> "BIT", bmi |-> "BMI",
     bne |-> "BNE", bpl |-> "BPL", brk |-> "BRK", bvc |-> "BVC",
     bvs |-> "BVS", clc |-> "CLC", cld |-> "CLD", cli |-> "CLI",
     clv |-> "CLV", cmp |-> "CMP", cpx |-> "CPX", cpy |-> "CPY",
     dec |-> "DEC", dex |-> "DEX", dey |-> "DEY", eor |-> "EOR",
     inc |-> "INC", inx |-> "INX", iny |-> "INY", jmp |-> "JMP",
     jsr |-> "JSR", lda |-> "LDA", ldx |-> "LDX", ldy |-> "LDY",
     lsr |-> "LSR", nop |-> "NOP", ora |-> "ORA", pha |-> "PHA",
     php |-> "PHP", pla |-> "PLA", plp |-> "PLP", rol |-> "ROL",
     ror |-> "ROR", rti |-> "RTI", rts |-> "RTS", sbc |-> "SBC",
     sec |-> "SEC", sed |-> "SED", sei |-> "SEI", sta |-> "STA",
     stx |-> "STX", sty |-> "STY", tax |-> "TAX", tay |-> "TAY",
     tsx |-> "TSX", txa |-> "TXA", txs |-> "TXS", tya |-> "TYA"]
DisplayUppercase(name) == UpperNames[name]

\* a + b on a u8: panics on overflow in a build with overflow checks, wraps otherwise
AddU8(a, b) == [panic |-> debug_build /\ a + b > 255, val |-> (a + b) % 256]

\* what a formatter gives: the text, or a panic on the way
Printed(out) == [panic |-> FALSE, out |-> out]
FmtPanic == [panic |-> TRUE, out |-> ""]

\* the operand as shown: the address the arm of the match gives, its text
\* and the out_size the arm adds
Shown(got_addr, out, out_size) ==
    [panic |-> FALSE, got |-> got_addr, out |-> out, size |-> out_size]
ShownPanic == [panic |-> TRUE, got |-> 0, out |-> "", size |-> 0]

\* self.cpu.bus.mem_read(addr) and mem_read_u16(addr) in an arm of the match
Peek(c, addr, Rest(_)) ==
    Let(mem_read(c.bus, addr), LAMBDA r : IF r.panic THEN ShownPanic ELSE Rest(r.val))
PeekU16(c, addr, Rest(_)) ==
    Let(mem_read_u16(c.bus, addr), LAMBDA r : IF r.panic THEN ShownPanic ELSE Rest(r.val))

\* let got_addr = match addr_mode { .. }
OperandText(c, e, code, pc1) ==
    CASE e.mode = "Immediate" ->
           Peek(c, pc1, LAMBDA val : Shown(pc1, "#$" \o Hex2(val), 4))
      [] e.mode = "ZeroPage" ->
           Peek(c, pc1, LAMBDA addr :
           Peek(c, addr, LAMBDA val :
               Shown(addr, "$" \o Hex2(addr) \o " = " \o Hex2(val), 8)))
      [] e.mode = "ZeroPageX" ->
           Peek(c, pc1, LAMBDA addr :
           Let(WrapAdd8(addr, c.reg_x), LAMBDA with_x :
           Peek(c, with_x, LAMBDA val :
               Shown(with_x,
                     "$" \o Hex2(addr) \o ",X @ " \o Hex2(with_x) \o " = " \o Hex2(val), 15))))
      [] e.mode = "IndirectX" ->
           Peek(c, pc1, LAMBDA addr :
           Let(WrapAdd8(addr, c.reg_x), LAMBDA with_x :
           PeekU16(c, with_x, LAMBDA real_addr :
           Peek(c, real_addr, LAMBDA val :
               Shown(real_addr,
                     "($" \o Hex2(addr) \o ",X) @ " \o Hex2(with_x) \o " = "
                         \o Hex4(real_addr) \o " = " \o Hex2(val), 24)))))
      [] e.mode = "Relative" ->
           Peek(c, pc1, LAMBDA offset :
           Let(AddU8(offset, 1), LAMBDA addend :
               IF addend.panic THEN ShownPanic
               ELSE Let(AddU16(pc1, addend.val), LAMBDA addr :
                        IF addr.panic THEN ShownPanic
                        ELSE Shown(addr.val, "$" \o Hex4(addr.val), 5))))
      [] e.mode = "Absolute" ->
           PeekU16(c, pc1, LAMBDA addr :
               IF code = 76 \/ code = 32            \* JMP & JSR absolute
               THEN Shown(addr, "$" \o Hex4(addr), 5)
               ELSE Peek(c, addr, LAMBDA val :
                        Shown(addr, "$" \o Hex4(addr) \o " = " \o Hex2(val), 10)))
      [] OTHER -> ShownPanic                        \* mode => todo!("{mode:#?}")

\* <TraceAddrMode as Display>::fmt with the given width: the operand, checked
\* against get_op_addr on a clone of the Cpu, padded with spaces
TraceAddrMode(c, e, code, width) ==
    IF e.mode = "NoneAddressing" THEN Printed(Spaces(width))
    ELSE Let(AddU16(c.pc, 1), LAMBDA pc1 :
             IF pc1.panic THEN FmtPanic
             ELSE Let(get_op_addr([c EXCEPT !.pc = pc1.val], e.mode), LAMBDA real_addr :
                      IF real_addr.c.panicked THEN FmtPanic
                      ELSE Let(OperandText(c, e, code, pc1.val), LAMBDA t :
                               IF t.panic \/ t.got # real_addr.val   \* assert_eq!
                               THEN FmtPanic
                               ELSE Printed(t.out \o Spaces(width - t.size)))))

\* the bytes i .. op_size - 1 of the instruction, each as " XX"
RECURSIVE InstrBytes(_, _, _)
InstrBytes(c, i, op_size) ==
    IF i >= op_size THEN Printed("")
    ELSE Let(AddU16(c.pc, i), LAMBDA addr :
             IF addr.panic THEN FmtPanic
             ELSE Let(mem_read(c.bus, addr.val), LAMBDA r :
                      IF r.panic THEN FmtPanic
                      ELSE Let(InstrBytes(c, i + 1, op_size), LAMBDA rest :
                               IF rest.panic THEN FmtPanic
                               ELSE Printed(" " \o Hex2(r.val) \o rest.out))))

\* <TraceBytes as Display>::fmt with the given width
TraceBytes(c, e, width) ==
    Let(ModeSize(e.mode) + 1, LAMBDA op_size :
    Let(InstrBytes(c, 0, op_size), LAMBDA b :
        IF b.panic THEN FmtPanic
        ELSE Printed(b.out \o Spaces(width - op_size * 3))))

\* <TraceOp as Display>::fmt
TraceOpFmt(c, e, code) ==
    Let(TraceBytes(c, e, 10), LAMBDA b :
        IF b.panic THEN FmtPanic
        ELSE Let(TraceAddrMode(c, e, code, 27), LAMBDA m :
                 IF m.panic THEN FmtPanic
                 ELSE Printed(Hex4(c.pc) \o " " \o b.out \o " " \o DisplayUppercase(e.name)
                                  \o " " \o m.out
                                  \o " A:" \o Hex2(c.reg_a) \o " X:" \o Hex2(c.reg_x)
                                  \o " Y:" \o Hex2(c.reg_y) \o " P:" \o Hex2(c.status)
                                  \o " SP:" \o Hex2(c.sp))))

\* trace with get_op_addr run on the Cpu itself instead of on a clone
trace_unclone(c) ==
    Let(mem_read(c.bus, c.pc), LAMBDA r :
        IF r.panic THEN [c |-> Panic(c), res |-> "Panic", line |-> ""]
        ELSE IF r.val \notin DOMAIN OPCODES THEN [c |-> c, res |-> "None", line |-> ""]
        ELSE Let(TraceOpFmt(c, OPCODES[r.val], r.val), LAMBDA f :
                 IF f.panic THEN [c |-> Panic(c), res |-> "Panic", line |-> ""]
                 ELSE [c |-> IF OPCODES[r.val].mode = "NoneAddressing" THEN c
                             ELSE get_op_addr([c EXCEPT !.pc = WrapAdd16(c.pc, 1)],
                                              OPCODES[r.val].mode).c,
                       res |-> "Some", line |-> f.out]))

\* TraceOp::new(&cpu).map(|t| t.to_string()): the Cpu as the call leaves it,
\* and None, Some(line), or a panic
trace(c) ==
    Let(mem_read(c.bus, c.pc), LAMBDA r :
        IF r.panic THEN [c |-> Panic(c), res |-> "Panic", line |-> ""]
        ELSE IF r.val \notin DOMAIN OPCODES THEN [c |-> c, res |-> "None", line |-> ""]
        ELSE Let(TraceOpFmt(c, OPCODES[r.val], r.val), LAMBDA f :
                 IF f.panic THEN [c |-> Panic(c), res |-> "Panic", line |-> ""]
                 ELSE [c |-> c, res |-> "Some", line |-> f.out]))

----------------------------------------------------------------------------
(* Rom: src/src/rom.rs.  A byte string is its length and its non-zero bytes. *)

NES_TAG == <<78, 69, 83, 26>>

\* untrusted::Reader::new(untrusted::Input::from(raw)); trace lists the
\* positions the reader has had
Reader(raw) == [input |-> raw, i |-> 0, trace |-> <<0>>]
Advance(rd, n) == [rd EXCEPT !.i = rd.i + n, !.trace = Append(rd.trace, rd.i + n)]
NoSlice == [start |-> 0, len |-> 0]

\* reader.read_byte(): Err(EndOfInput) at the end of the input
read_byte(rd) ==
    IF rd.i < rd.input.len
    THEN [ok |-> TRUE, val |-> Get(rd.input.data, rd.i), rd |-> Advance(rd, 1)]
    ELSE [ok |-> FALSE, val |-> 0, rd |-> rd]

\* reader.read_bytes(n): the next n bytes as a slice of the input, or
\* Err(EndOfInput) when fewer are left
read_bytes(rd, n) ==
    IF rd.i + n <= rd.input.len
    THEN [ok |-> TRUE, val |-> [start |-> rd.i, len |-> n], rd |-> Advance(rd, n)]
    ELSE [ok |-> FALSE, val |-> NoSlice, rd |-> rd]

\* no read where the code reads nothing
Skip(rd) == [ok |-> TRUE, val |-> NoSlice, rd |-> rd]

\* slice.as_slice_less_safe() as a sequence of bytes
SliceSeq(raw, sl) == [k \in 1 .. sl.len |-> Get(raw.data, sl.start + k - 1)]

\* Err(e): no Rom is produced
RomErr(e, rd) ==
    [res |-> e, pos |-> rd.i, trace |-> rd.trace,
     prg_rom |-> NoSlice, chr_rom |-> NoSlice, mapper |-> 0, mirroring |-> "None"]

\* the ? operator on a read: its value, or Err(Error::UnexpectedEOI)
Try(r, Rest(_)) == IF r.ok THEN Rest(r) ELSE RomErr("UnexpectedEOI", r.rd)

\* IsNes2 looking at bit 3 only
IsNes2_bit3_only(flags_7) == BitAnd(flags_7, 8) # 0

\* (flags_7 >> 2) & 0b11 != 0
IsNes2(flags_7) == BitAnd(flags_7 \div 4, 3) # 0

\* (flags_6 >> 4) | (flags_7 & 0xF0)
MapperOf(flags_6, flags_7) == BitOr(flags_6 \div 16, BitAnd(flags_7, 240))

\* MirroringOf with the vertical bit taking precedence over four-screen
MirroringOf_vertical_first(flags_6) ==
    IF BitAnd(flags_6, 1) # 0 THEN "Vertical"
    ELSE IF BitAnd(flags_6, 8) # 0 THEN "FourScreen"
    ELSE "Horizontal"

\* match (four_screen, vert_mirroring)
MirroringOf(flags_6) ==
    IF BitAnd(flags_6, 8) # 0 THEN "FourScreen"
    ELSE IF BitAnd(flags_6, 1) # 0 THEN "Vertical"
    ELSE "Horizontal"

\* flags_6 & 0b0100 != 0
HasTrainer(flags_6) == BitAnd(flags_6, 4) # 0

\* Rom::new(raw)
RomNew(raw) ==
    Try(read_bytes(Reader(raw), 4), LAMBDA tag :
    IF SliceSeq(raw, tag.val) # NES_TAG THEN RomErr("InvalidMagicBytes", tag.rd) ELSE
    Try(read_byte(tag.rd), LAMBDA prg_pages :
    Try(read_byte(prg_pages.rd), LAMBDA chr_pages :
    Try(read_byte(chr_pages.rd), LAMBDA flags_6 :
    Try(read_byte(flags_6.rd), LAMBDA flags_7 :
    Try(read_byte(flags_7.rd), LAMBDA flags_8 :
    Try(read_byte(flags_8.rd), LAMBDA flags_9 :
    Try(read_byte(flags_9.rd), LAMBDA flags_10 :
    IF IsNes2(flags_7.val) THEN RomErr("UnsupportedFormat", flags_10.rd) ELSE
    Try(IF HasTrainer(flags_6.val) THEN read_bytes(flags_10.rd, 512) ELSE Skip(flags_10.rd),
        LAMBDA trainer :
    Try(read_bytes(trainer.rd, prg_pages.val * PRG_ROM_PAGE_SIZE), LAMBDA prg :
    Try(read_bytes(prg.rd, chr_pages.val * CHR_ROM_PAGE_SIZE), LAMBDA chr :
        [res |-> "Ok", pos |-> chr.rd.i, trace |-> chr.rd.trace,
         prg_rom |-> prg.val, chr_rom |-> chr.val,
         mapper |-> MapperOf(flags_6.val, flags_7.val),
         mirroring |-> MirroringOf(flags_6.val)])))))))))))

\* the bytes of a slice of raw, as the Bus holds them
SliceBytes(raw, sl) ==
    [len  |-> sl.len,
     data |-> [j \in {i - sl.start : i \in {k \in DOMAIN raw.data :
                                               k >= sl.start /\ k < sl.start + sl.len}}
                 |-> raw.data[j + sl.start]]]

TheBus == [vram |-> vram, prg_rom |-> prg_rom]

----------------------------------------------------------------------------
(* The inputs of the bus operations *)

\* where the address map changes: the RAM mirrors, the PPU window, the unmapped
\* range, the two ROM banks and the end of the address space
Boundaries == {0, 2048, 4096, 6144, 8192, 16384, 32768, 49152, 65536}
ProbeAddrs == {a \in {b + d : b \in Boundaries, d \in (0 - AddrSpan) .. 0} :
                  a \in U16}
WriteVals == 0 .. MaxVal
\* words whose two bytes differ
WriteWords == {FromLeBytes(v, MaxVal - v) : v \in WriteVals}

\* a cartridge byte that tells its offset: never zero, different in the two banks
PatternByte(i) == (i % 255) + 1
\* a cartridge of the given number of pages, non-zero around the bank boundaries
RomOf(pages) ==
    [len  |-> pages * PRG_ROM_PAGE_SIZE,
     data |-> [i \in {a - 32768 : a \in {p \in ProbeAddrs : p \in ROM_RANGE
                                           /\ p - 32768 < pages * PRG_ROM_PAGE_SIZE}}
                 |-> PatternByte(i)]]
RomImages == {RomOf(p) : p \in 0 .. MaxPrgPages}

\* what an operation leaves in ret
Ret(op, addr, val, res, off) == [op |-> op, addr |-> addr, val |-> val, res |-> res, off |-> off]
NoRet == Ret("none", 0, 0, "", 0)

----------------------------------------------------------------------------
(* The bus on its own: Bus::new, then any reads and writes *)

\* Bus::new(rom); no Cpu is built, its registers stay at zero
InitBus ==
    /\ reg_a = 0 /\ reg_x = 0 /\ reg_y = 0 /\ status = 0 /\ sp = 0 /\ pc = 0
    /\ vram = ZeroVram
    /\ prg_rom \in RomImages
    /\ panicked = FALSE
    /\ ret = NoRet
    /\ running = FALSE
    /\ nsteps = 0
    /\ debug_build \in BOOLEAN

MemRead(addr) ==
    /\ ~panicked
    /\ Let(mem_read(TheBus, addr), LAMBDA r :
           /\ panicked' = r.panic
           /\ ret' = Ret("mem_read", addr, r.val, "", 0))
    /\ UNCHANGED <<cpuRegs, busVars, running, nsteps, envVars>>

MemWrite(addr, val) ==
    /\ ~panicked
    /\ Let(mem_write(TheBus, addr, val), LAMBDA r :
           /\ panicked' = r.panic
           /\ vram' = r.bus.vram
           /\ prg_rom' = r.bus.prg_rom
           /\ ret' = Ret("mem_write", addr, val, "", 0))
    /\ UNCHANGED <<cpuRegs, running, nsteps, envVars>>

MemReadU16(addr) ==
    /\ ~panicked
    /\ Let(mem_read_u16(TheBus, addr), LAMBDA r :
           /\ panicked' = r.panic
           /\ ret' = Ret("mem_read_u16", addr, r.val, "", 0))
    /\ UNCHANGED <<cpuRegs, busVars, running, nsteps, envVars>>

MemWriteU16(addr, val) ==
    /\ ~panicked
    /\ Let(mem_write_u16(TheBus, addr, val), LAMBDA r :
           /\ panicked' = r.panic
           /\ vram' = r.bus.vram
           /\ prg_rom' = r.bus.prg_rom
           /\ ret' = Ret("mem_write_u16", addr, val, "", 0))
    /\ UNCHANGED <<cpuRegs, running, nsteps, envVars>>

NextBus ==
    \/ \E a \in ProbeAddrs : MemRead(a)
    \/ \E a \in ProbeAddrs, v \in WriteVals : MemWrite(a, v)
    \/ \E a \in ProbeAddrs : MemReadU16(a)
    \/ \E a \in ProbeAddrs, w \in WriteWords : MemWriteU16(a, w)

SpecBus == InitBus /\ [][NextBus]_vars

----------------------------------------------------------------------------
(* The CPU on a cartridge: Bus::new, Cpu::new, then ticks, run and reset    *)

Self == [reg_a |-> reg_a, reg_x |-> reg_x, reg_y |-> reg_y, status |-> status,
         sp |-> sp, pc |-> pc, bus |-> TheBus, panicked |-> panicked]

\* the variables take the fields of the Cpu an operation leaves
Becomes(c) ==
    /\ reg_a' = c.reg_a /\ reg_x' = c.reg_x /\ reg_y' = c.reg_y
    /\ status' = c.status /\ sp' = c.sp /\ pc' = c.pc
    /\ vram' = c.bus.vram /\ prg_rom' = c.bus.prg_rom
    /\ panicked' = c.panicked

OperandBytes == {0} \cup {255 - k : k \in 0 .. MaxOperand}
\* where the reset vector of the test cartridges points: the first and the last ROM byte
CodeStarts == {32768, 65535}

\* a 32 KiB cartridge, zero except for its reset vector, which points at start,
\* and the instruction bytes placed from start on (those that fall into ROM)
CodeRom(start, bytes) ==
    Let({i \in 1 .. Len(bytes) : start + i - 1 \in ROM_RANGE /\ bytes[i] # 0}, LAMBDA placed :
    Let([a \in {start + i - 1 - 32768 : i \in placed} |-> bytes[a + 32768 - start + 1]], LAMBDA code :
    Let(65532 - 32768, LAMBDA lo :
    Let(65533 - 32768, LAMBDA hi :
    Let(Put(code, lo, LoByte(start)), LAMBDA withLo :
        [len |-> 2 * PRG_ROM_PAGE_SIZE, data |-> Put(withLo, hi, HiByte(start))])))))

InitCpu ==
    /\ debug_build \in BOOLEAN
    /\ \E start \in CodeStarts, op \in U8, o1 \in OperandBytes, o2 \in OperandBytes :
         Let(cpu_new([vram |-> ZeroVram, prg_rom |-> CodeRom(start, <<op, o1, o2>>)]), LAMBDA c :
             /\ reg_a = c.reg_a /\ reg_x = c.reg_x /\ reg_y = c.reg_y
             /\ status = c.status /\ sp = c.sp /\ pc = c.pc
             /\ vram = c.bus.vram /\ prg_rom = c.bus.prg_rom
             /\ panicked = c.panicked
             /\ ret = Ret("new", 0, 0, "", 0))
    /\ running = FALSE
    /\ nsteps = 0

\* the host calls cpu.tick()
Tick(log) ==
    /\ ~panicked /\ ~running /\ nsteps < MaxSteps
    /\ Let(tick(Self, log), LAMBDA t :
           /\ Becomes(t.c)
           /\ ret' = Ret("tick", pc, t.opcode, t.res, t.offset))
    /\ nsteps' = nsteps + 1
    /\ UNCHANGED <<running, envVars>>

\* the host calls cpu.run(): the loop is entered
RunStart ==
    /\ ~panicked /\ ~running /\ nsteps < MaxSteps
    /\ running' = TRUE
    /\ ret' = Ret("run", pc, 0, "Started", 0)
    /\ UNCHANGED <<cpuRegs, busVars, panicked, nsteps, envVars>>

\* one iteration of run's loop: self.tick()? decides whether run returns
RunTick(log) ==
    /\ ~panicked /\ running /\ nsteps < MaxSteps
    /\ Let(tick(Self, log), LAMBDA t :
           /\ Becomes(t.c)
           /\ running' = (t.res = "Continue")
           /\ ret' = Ret("run", pc, t.opcode,
                         CASE t.res = "Halt" -> "Ok"
                           [] t.res = "InvalidOpcode" -> "Err"
                           [] OTHER -> t.res,
                         t.offset))
    /\ nsteps' = nsteps + 1
    /\ UNCHANGED envVars

\* the host calls cpu.reset(); ret keeps the PC and the status it found
Reset ==
    /\ ~panicked /\ ~running
    /\ Becomes(reset(Self))
    /\ ret' = Ret("reset", pc, status, "", 0)
    /\ UNCHANGED <<running, nsteps, envVars>>

\* the host calls cpu.bus.mem_write(addr, val)
HostWrite(addr, val) ==
    /\ ~panicked /\ ~running /\ nsteps < MaxSteps
    /\ Let(BusWrite(Self, addr, val), LAMBDA c :
           /\ Becomes(c)
           /\ ret' = Ret("mem_write", addr, val, "", 0))
    /\ nsteps' = nsteps + 1
    /\ UNCHANGED <<running, envVars>>

\* the host writes to the first RAM byte and to the first ROM byte
PokeAddrs == {0, 32768}

NextCpu ==
    \/ \E log \in BOOLEAN : Tick(log)
    \/ \E a \in PokeAddrs, v \in WriteVals \ {0} : HostWrite(a, v)
    \/ RunStart
    \/ \E log \in BOOLEAN : RunTick(log)
    \/ Reset

SpecCpu == InitCpu /\ [][NextCpu]_vars

----------------------------------------------------------------------------
(* The stack operations on their own: Cpu::new, any SP, then pushes and     *)
(* pops called by the host                                                  *)

\* the cartridge of testing::test_rom: 32 KiB of zeros
TestRom == [len |-> 2 * PRG_ROM_PAGE_SIZE, data |-> ZeroVram]

InitStack ==
    /\ debug_build \in BOOLEAN
    /\ Let(cpu_new([vram |-> ZeroVram, prg_rom |-> TestRom]), LAMBDA c :
           /\ reg_a = c.reg_a /\ reg_x = c.reg_x /\ reg_y = c.reg_y
           /\ status = c.status /\ pc = c.pc
           /\ vram = c.bus.vram /\ prg_rom = c.bus.prg_rom
           /\ panicked = c.panicked)
    /\ sp \in U8
    /\ ret = Ret("new", 0, 0, "", 0)
    /\ running = FALSE
    /\ nsteps = 0

\* ret keeps the SP found, the value pushed or popped, and the operation before
Push(val) ==
    /\ ~panicked /\ nsteps < MaxSteps
    /\ Becomes(push(Self, val))
    /\ ret' = Ret("push", sp, val, ret.op, 0)
    /\ nsteps' = nsteps + 1
    /\ UNCHANGED <<running, envVars>>

Pop ==
    /\ ~panicked /\ nsteps < MaxSteps
    /\ Let(pop(Self), LAMBDA r :
           /\ Becomes(r.c)
           /\ ret' = Ret("pop", sp, r.val, ret.op, 0))
    /\ nsteps' = nsteps + 1
    /\ UNCHANGED <<running, envVars>>

PushU16(val) ==
    /\ ~panicked /\ nsteps < MaxSteps
    /\ Becomes(push_u16(Self, val))
    /\ ret' = Ret("push_u16", sp, val, ret.op, 0)
    /\ nsteps' = nsteps + 1
    /\ UNCHANGED <<running, envVars>>

PopU16 ==
    /\ ~panicked /\ nsteps < MaxSteps
    /\ Let(pop_u16(Self), LAMBDA r :
           /\ Becomes(r.c)
           /\ ret' = Ret("pop_u16", sp, r.val, ret.op, 0))
    /\ nsteps' = nsteps + 1
    /\ UNCHANGED <<running, envVars>>

NextStack ==
    \/ \E v \in WriteVals \cup {255} : Push(v)
    \/ Pop
    \/ \E w \in WriteWords : PushU16(w)
    \/ PopU16

SpecStack == InitStack /\ [][NextStack]_vars

----------------------------------------------------------------------------
(* Arithmetic: a cartridge holding  <op> #M ; SEC ; SBC #M  with <op> ADC   *)
(* or SBC, the host setting the accumulator and the status, then ticks      *)

\* bytes around the carry and sign boundaries, and those of the doc tests
AluBytes == {v \in {b + d : b \in {0, 64, 128, 192, 256}, d \in (0 - AluSpan) .. AluSpan}
                      \cup {5, 250} : v \in U8}
\* ADC #imm and SBC #imm
AluOps == {105, 233}
AluProgram(op, m) == <<op, m, 56, 233, m>>
AluStart == 32768

\* Cpu::new, then cpu.reg_a = a; cpu.status = st; ret keeps what the host set
InitAlu ==
    /\ debug_build \in BOOLEAN
    /\ \E op \in AluOps, a \in U8, m \in AluBytes, cin \in {0, CARRY}, d \in {0, DECIMAL_MODE} :
         Let(cpu_new([vram |-> ZeroVram, prg_rom |-> CodeRom(AluStart, AluProgram(op, m))]), LAMBDA c :
             /\ reg_a = a /\ reg_x = c.reg_x /\ reg_y = c.reg_y
             /\ status = cin + d /\ sp = c.sp /\ pc = c.pc
             /\ vram = c.bus.vram /\ prg_rom = c.bus.prg_rom
             /\ panicked = c.panicked
             /\ ret = [op |-> "set", a0 |-> a, st0 |-> cin + d, op1 |-> op, m |-> m,
                       opcode |-> 0, res |-> ""])
    /\ running = FALSE
    /\ nsteps = 0

\* the host calls cpu.tick() while the PC is inside the program
AluTick(log) ==
    /\ ~panicked
    /\ pc < AluStart + Len(AluProgram(ret.op1, ret.m))
    /\ Let(tick(Self, log), LAMBDA t :
           /\ Becomes(t.c)
           /\ ret' = [ret EXCEPT !.op = "tick", !.opcode = t.opcode, !.res = t.res])
    /\ nsteps' = nsteps + 1
    /\ UNCHANGED <<running, envVars>>

NextAlu == \E log \in BOOLEAN : AluTick(log)

SpecAlu == InitAlu /\ [][NextAlu]_vars

----------------------------------------------------------------------------
(* The loader: a byte string, Rom::new on it, and Cpu::new(Bus::new(rom))   *)
(* when it is accepted                                                      *)

\* the tag, and a tag whose last byte is off by one
Magics == {NES_TAG, <<78, 69, 83, 27>>}
\* trainer, four-screen and vertical bits, under two mapper nibbles
Flags6s == {lo + 16 * hi : lo \in {0, 1, 4, 8, 9}, hi \in {0, 3}}
\* NES 2.0 bits clear and set, under three mapper nibbles
Flags7s == {0, 4, 8, 48, 240}

\* where the fields of an image end: after each header byte the parser reads,
\* after the 16-byte header, the trainer, the PRG-ROM and the CHR-ROM, counted
\* from the header's end and from the last header byte the parser reads
FieldEnds(t, prg, chr) ==
    {0, 4, 8, 11, 16}
        \cup UNION {{h + t, h + t + prg, h + t + prg + chr} : h \in {11, 16}}

NearFieldEnds(t, prg, chr) ==
    {e + d : e \in FieldEnds(t, prg, chr), d \in (0 - LenSpan) .. LenSpan}

\* a byte of the image that tells its offset, never zero
ImageByte(header, i) == IF i < 8 THEN header[i + 1] ELSE (i % 251) + 1

\* an image of the given length: the header bytes, and non-zero bytes around
\* the ends of the fields
RawImage(header, t, prg, chr, len) ==
    [len  |-> len,
     data |-> [i \in {k \in (0 .. 15) \cup NearFieldEnds(t, prg, chr) :
                        k >= 0 /\ k < len /\ ImageByte(header, k) # 0}
                 |-> ImageByte(header, i)]]

InitRom ==
    /\ reg_a = 0 /\ reg_x = 0 /\ reg_y = 0 /\ status = 0 /\ sp = 0 /\ pc = 0
    /\ vram = ZeroVram
    /\ prg_rom = [len |-> 0, data |-> ZeroVram]
    /\ panicked = FALSE
    /\ running = FALSE
    /\ nsteps = 0
    /\ debug_build \in BOOLEAN
    /\ \E magic \in Magics, p \in 0 .. MaxPrgPages, c \in 0 .. MaxChrPages,
          f6 \in Flags6s, f7 \in Flags7s :
         Let(IF HasTrainer(f6) THEN 512 ELSE 0, LAMBDA t :
             \E len \in {n \in NearFieldEnds(t, p * PRG_ROM_PAGE_SIZE, c * CHR_ROM_PAGE_SIZE) :
                           n >= 0} :
                ret = [op  |-> "input",
                       raw |-> RawImage(magic \o <<p, c, f6, f7>>, t,
                                        p * PRG_ROM_PAGE_SIZE, c * CHR_ROM_PAGE_SIZE, len)])

\* the host calls Rom::new(&raw)
ParseRom ==
    /\ ret.op = "input"
    /\ ret' = [op |-> "Rom::new", raw |-> ret.raw, out |-> RomNew(ret.raw)]
    /\ UNCHANGED <<cpuRegs, busVars, panicked, running, nsteps, envVars>>

\* the host calls Cpu::new(Bus::new(rom)) on the Rom it got
NewCpuOnRom ==
    /\ ret.op = "Rom::new" /\ ret.out.res = "Ok"
    /\ Becomes(cpu_new([vram |-> ZeroVram, prg_rom |-> SliceBytes(ret.raw, ret.out.prg_rom)]))
    /\ ret' = [ret EXCEPT !.op = "Cpu::new"]
    /\ UNCHANGED <<running, nsteps, envVars>>

NextRom == ParseRom \/ NewCpuOnRom

SpecRom == InitRom /\ [][NextRom]_vars

----------------------------------------------------------------------------
(* Cpu::load: Cpu::new, the host setting registers, then load(prog)         *)

\* lengths at which 0x0600 + i reaches the first RAM mirror ($0800 after 512
\* bytes), the cell it started from (after 2048), the PPU registers ($2000
\* after 6656), and the longest program
LoadEdges == {0, 512, 2048, 6656, 65535}
ProgLens ==
    {n \in {e + d : e \in LoadEdges, d \in (0 - LoadSpan) .. LoadSpan} : n >= 0 /\ n <= 65535}

\* the byte of a program at offset i: non-zero around the edges
ProgByte(i) ==
    IF \E e \in LoadEdges : i - e \in (0 - LoadSpan - 1) .. LoadSpan THEN (i % 251) + 1 ELSE 0

Program(n) ==
    [len  |-> n,
     data |-> [i \in {k \in {e + d : e \in LoadEdges, d \in (0 - LoadSpan - 1) .. LoadSpan} :
                        k >= 0 /\ k < n /\ ProgByte(k) # 0} |-> ProgByte(i)]]

\* the registers of a Cpu, without its bus
Regs(c) == [reg_a |-> c.reg_a, reg_x |-> c.reg_x, reg_y |-> c.reg_y,
            status |-> c.status, sp |-> c.sp, pc |-> c.pc]

\* Cpu::new on a cartridge whose reset vector is zero or $8000, then the
\* host sets the pub fields reg_a, reg_x, reg_y, status and sp
InitLoad ==
    /\ debug_build \in BOOLEAN
    /\ \E rom \in {TestRom, CodeRom(32768, <<>>)} :
         Let(cpu_new([vram |-> ZeroVram, prg_rom |-> rom]), LAMBDA c :
             /\ pc = c.pc
             /\ vram = c.bus.vram /\ prg_rom = c.bus.prg_rom
             /\ panicked = c.panicked)
    /\ reg_a \in {0, 165} /\ reg_x \in {0, 7} /\ reg_y = 9
    /\ status \in {0, 255} /\ sp \in {STACK_RESET, 0}
    /\ ret = [op |-> "new"]
    /\ running = FALSE
    /\ nsteps = 0

\* the host calls cpu.load(&prog); ret keeps the program and the registers found
Load(prog) ==
    /\ ~panicked /\ nsteps = 0
    /\ Becomes(load(Self, prog))
    /\ ret' = [op |-> "load", prog |-> prog, before |-> Regs(Self)]
    /\ nsteps' = 1
    /\ UNCHANGED <<running, envVars>>

NextLoad == \E n \in ProgLens : Load(Program(n))

SpecLoad == InitLoad /\ [][NextLoad]_vars

----------------------------------------------------------------------------
(* Tracing: a cartridge holding one instruction, the host setting X, then   *)
(* trace lines and ticks                                                    *)

\* operand bytes: zero, the last byte, and the high byte of the PPU registers
TraceOperands == {0, 32, 255}

InitTrace ==
    /\ debug_build \in BOOLEAN
    /\ \E start \in CodeStarts, op \in U8, o1 \in TraceOperands \ {32}, o2 \in TraceOperands \ {255} :
         Let(cpu_new([vram |-> ZeroVram, prg_rom |-> CodeRom(start, <<op, o1, o2>>)]), LAMBDA c :
             /\ reg_a = c.reg_a /\ reg_y = c.reg_y
             /\ status = c.status /\ sp = c.sp /\ pc = c.pc
             /\ vram = c.bus.vram /\ prg_rom = c.bus.prg_rom
             /\ panicked = c.panicked)
    /\ reg_x \in {0, 1}
    /\ ret = [op |-> "new"]
    /\ running = FALSE
    /\ nsteps = 0

\* the host renders a trace line; ret keeps the Cpu it traced, the byte at
\* its PC and what it got
Trace ==
    /\ ~panicked /\ ret.op # "trace"
    /\ Let(trace(Self), LAMBDA t :
           /\ Becomes(t.c)
           /\ ret' = [op |-> "trace", cpu |-> Self, opcode |-> mem_read(TheBus, pc).val,
                      res |-> t.res, line |-> t.line])
    /\ UNCHANGED <<running, nsteps, envVars>>

\* the host calls cpu.tick()
TraceTick(log) ==
    /\ ~panicked /\ nsteps < MaxSteps
    /\ Let(tick(Self, log), LAMBDA t :
           /\ Becomes(t.c)
           /\ ret' = [op |-> "tick", opcode |-> t.opcode, res |-> t.res])
    /\ nsteps' = nsteps + 1
    /\ UNCHANGED <<running, envVars>>

NextTrace == Trace \/ \E log \in BOOLEAN : TraceTick(log)

SpecTrace == InitTrace /\ [][NextTrace]_vars

----------------------------------------------------------------------------
(* Subroutines, the status on the stack and the flag helper: a cartridge    *)
(* holding a short program, the host setting SP, the status and the bytes   *)
(* on top of the stack, then ticks or calls of zero_and_neg_flags           *)

\* JSR start + 4 ; BRK ; RTS
JsrProgram(start) == <<32, LoByte(start + 4), HiByte(start + 4), 0, 96>>
\* the first ROM byte, and three bytes before a page ends
JsrStarts == {32768, 33021}
\* stack pointers: the reset value and those around the wrap
StackPointers == {STACK_RESET, 0, 1, 255}

\* Cpu::new on the cartridge, then the host sets sp and status and writes
\* top (a sequence of bytes) to the stack cells the next pops will read
OpsCpu(start, bytes, s, st, top) ==
    Let(cpu_new([vram |-> ZeroVram, prg_rom |-> CodeRom(start, bytes)]), LAMBDA c :
        [c EXCEPT !.sp = s, !.status = st,
                  !.bus.vram = [a \in {STACK + ((s + k) % 256) : k \in {j \in 1 .. Len(top) : top[j] # 0}}
                                  |-> top[((a - STACK - s + 256) % 256)]]])

InitOps ==
    /\ debug_build \in BOOLEAN
    /\ \E kind \in {"jsr", "php", "plp", "rti", "flags"}, v \in U8, s \in StackPointers,
          start \in JsrStarts, alt \in {0, 255} :
         Let(CASE kind = "jsr" -> OpsCpu(start, JsrProgram(start), s, 0, <<>>)
               [] kind = "php" -> OpsCpu(32768, <<8>>, s, v, <<>>)
               [] kind = "plp" -> OpsCpu(32768, <<40>>, s, alt, <<v>>)
               [] kind = "rti" -> OpsCpu(32768, <<64>>, s, alt, <<v, 52, 18>>)
               [] kind = "flags" -> OpsCpu(32768, <<>>, STACK_RESET, v, <<>>), LAMBDA c :
             /\ reg_a = c.reg_a /\ reg_x = c.reg_x /\ reg_y = c.reg_y
             /\ status = c.status /\ sp = c.sp /\ pc = c.pc
             /\ vram = c.bus.vram /\ prg_rom = c.bus.prg_rom
             /\ panicked = c.panicked
             /\ ret = [op |-> "set", kind |-> kind, init |-> c, prev |-> c,
                       opcode |-> 0, res |-> "", val |-> 0])
    /\ running = FALSE
    /\ nsteps = 0

\* the host calls cpu.tick(); ret keeps the Cpu the tick found
OpsTick(log) ==
    /\ ~panicked /\ ret.kind # "flags" /\ nsteps < MaxSteps
    /\ Let(tick(Self, log), LAMBDA t :
           /\ Becomes(t.c)
           /\ ret' = [ret EXCEPT !.op = "tick", !.prev = Self,
                                 !.opcode = t.opcode, !.res = t.res])
    /\ nsteps' = nsteps + 1
    /\ UNCHANGED <<running, envVars>>

\* the host calls cpu.zero_and_neg_flags(val), and once more with the same val
ZeroAndNegFlags(val) ==
    /\ ~panicked /\ ret.kind = "flags"
    /\ nsteps = 0 \/ (nsteps = 1 /\ val = ret.val)
    /\ Becomes(zero_and_neg_flags(Self, val))
    /\ ret' = [ret EXCEPT !.op = "zero_and_neg_flags", !.prev = Self, !.val = val]
    /\ nsteps' = nsteps + 1
    /\ UNCHANGED <<running, envVars>>

NextOps ==
    \/ \E log \in BOOLEAN : OpsTick(log)
    \/ \E val \in U8 : ZeroAndNegFlags(val)

SpecOps == InitOps /\ [][NextOps]_vars

----------------------------------------------------------------------------
(* One instruction: a cartridge holding it, the host setting the registers, *)
(* the status and a few RAM cells, then one tick; or the host writing an    *)
(* operand to RAM and calling get_op_addr                                   *)

WrapSpan == 1
\* the first ROM byte and the last bytes of the address space
InstrStarts == {32768} \cup {65535 - k : k \in 0 .. WrapSpan}
\* ASL, LSR, ROL, ROR on the accumulator and on a zero-page cell
ShiftOps == {10, 74, 42, 106, 6, 70, 38, 102}
ProbeVals == {0, 1, 128, 255}
AddressingModes == {"Immediate", "ZeroPage", "ZeroPageX", "ZeroPageY", "Absolute",
                    "AbsoluteX", "AbsoluteY", "Indirect", "IndirectX", "IndirectY",
                    "Relative"}
\* RAM bytes that tell their cell
CellByte(k) == ((k * 37) + 11) % 256

\* Cpu::new on the cartridge, then the host sets the registers and the status
\* and writes cells (a function from RAM addresses to bytes)
InstrCpu(start, bytes, a, xy, st, cells) ==
    Let(cpu_new([vram |-> ZeroVram, prg_rom |-> CodeRom(start, bytes)]), LAMBDA c :
        [c EXCEPT !.reg_a = a, !.reg_x = xy, !.reg_y = xy, !.status = st,
                  !.bus.vram = [k \in {j \in DOMAIN cells : cells[j] # 0} |-> cells[k]]])

\* the cells the operand and the pointers of the indirect modes can fall on
AddrCells == (0 .. 3) \cup (13 .. 19) \cup (252 .. 258)

\* the variables hold the Cpu c, set up for the given kind of run
StartsAs(c, kind) ==
    /\ reg_a = c.reg_a /\ reg_x = c.reg_x /\ reg_y = c.reg_y
    /\ status = c.status /\ sp = c.sp /\ pc = c.pc
    /\ vram = c.bus.vram /\ prg_rom = c.bus.prg_rom
    /\ panicked = c.panicked
    /\ ret = [op |-> "set", kind |-> kind, prev |-> c, opcode |-> 0,
              res |-> "", mode |-> "", val |-> 0]

InitInstr ==
    /\ debug_build \in BOOLEAN
    /\ running = FALSE
    /\ nsteps = 0
    /\ \/ \E op \in ShiftOps, v \in U8, st \in {0, 1, 255} :
            StartsAs(InstrCpu(32768, <<op, 16>>, v, 0, st, [k \in {16} |-> 255 - v]), "shift")
       \/ \E op \in U8, a \in ProbeVals, m \in ProbeVals, xy \in {0, 255}, st \in {0, 255} :
            StartsAs(InstrCpu(32768, <<op, 16, 0>>, a, xy, st, [k \in {15, 16, 17} |-> m]),
                     "flags")
       \/ \E start \in InstrStarts, op \in U8, o1 \in OperandBytes, st \in {0, 255} :
            StartsAs(InstrCpu(start, <<op, o1, 0>>, 0, 0, st, ZeroVram), "wrap")
       \/ \E d \in {16, 254, 255}, xy \in {0, 1, 2, 255}, fill \in BOOLEAN :
            StartsAs(InstrCpu(0, <<>>, 0, xy, 0,
                              [k \in AddrCells |-> IF k = 0 THEN d
                                                   ELSE IF fill THEN 255 ELSE CellByte(k)]),
                     "addr")

\* the host calls cpu.tick(); ret keeps the Cpu the tick found
InstrTick(log) ==
    /\ ~panicked /\ ret.op = "set" /\ ret.kind # "addr"
    /\ Let(tick(Self, log), LAMBDA t :
           /\ Becomes(t.c)
           /\ ret' = [ret EXCEPT !.op = "tick", !.opcode = t.opcode, !.res = t.res,
                                 !.mode = IF t.opcode \in DOMAIN OPCODES
                                          THEN OPCODES[t.opcode].mode ELSE ""])
    /\ nsteps' = nsteps + 1
    /\ UNCHANGED <<running, envVars>>

\* the host calls cpu.get_op_addr(mode) with the PC on the operand it wrote
GetOpAddr(mode) ==
    /\ ~panicked /\ ret.op = "set" /\ ret.kind = "addr"
    /\ Let(get_op_addr(Self, mode), LAMBDA r :
           /\ Becomes(r.c)
           /\ ret' = [ret EXCEPT !.op = "get_op_addr", !.mode = mode, !.val = r.val])
    /\ nsteps' = nsteps + 1
    /\ UNCHANGED <<running, envVars>>

NextInstr ==
    \/ \E log \in BOOLEAN : InstrTick(log)
    \/ \E mode \in AddressingModes : GetOpAddr(mode)

SpecInstr == InitInstr /\ [][NextInstr]_vars

----------------------------------------------------------------------------
(* Claims *)

C2_RamMirror ==
    /\ \A a \in ProbeAddrs \cap RAM_RANGE :
           mem_read(TheBus, a) = mem_read(TheBus, a % 2048)
    /\ (ret.op = "mem_write" /\ ret.addr \in RAM_RANGE) =>
           \A b \in ProbeAddrs \cap RAM_RANGE :
               (b % 2048 = ret.addr % 2048) =>
                   mem_read(TheBus, b) = [panic |-> FALSE, val |-> ret.val]

\* a non-zero byte written through a mirror above $07FF is read at its base address
C2_Witness ==
    /\ ret.op = "mem_write" /\ ret.addr \in RAM_RANGE /\ ret.addr >= VRAM_LEN
    /\ ret.val # 0
    /\ mem_read(TheBus, ret.addr % 2048).val = ret.val

\* C3: with a 16 KiB PRG-ROM every address in $8000-$FFFF reads the ROM byte at
\* its offset modulo $4000, which is also what the folded address reads; with a
\* 32 KiB PRG-ROM it reads the ROM byte at its offset, unfolded.
C3_RomMirror ==
    /\ \A a \in ProbeAddrs \cap ROM_RANGE :
         /\ prg_rom.len = 16384 =>
              /\ mem_read(TheBus, a) = mem_read(TheBus, 32768 + ((a - 32768) % 16384))
              /\ mem_read(TheBus, a) =
                     [panic |-> FALSE, val |-> Get(prg_rom.data, (a - 32768) % 16384)]
         /\ prg_rom.len = 32768 =>
              mem_read(TheBus, a) = [panic |-> FALSE, val |-> Get(prg_rom.data, a - 32768)]
    /\ (ret.op = "mem_read" /\ ret.addr \in ROM_RANGE /\ prg_rom.len = 16384) =>
           ret.val = Get(prg_rom.data, (ret.addr - 32768) % 16384)
    /\ (ret.op = "mem_read" /\ ret.addr \in ROM_RANGE /\ prg_rom.len = 32768) =>
           ret.val = Get(prg_rom.data, ret.addr - 32768)

\* a read in the upper bank of a 16 KiB cartridge returned the lower bank's byte
C3_Witness ==
    /\ ret.op = "mem_read" /\ prg_rom.len = 16384 /\ ret.addr >= 49152
    /\ ret.val = PatternByte(ret.addr - 49152)
    /\ ~panicked

\* the address a store instruction at the PC is about to write to
StoreTarget ==
    LET op == mem_read(TheBus, pc).val
    IN  IF op \in DOMAIN OPCODES /\ OPCODES[op].name \in {"sta", "stx", "sty"}
        THEN get_op_addr([Self EXCEPT !.pc = WrapAdd16(pc, 1)], OPCODES[op].mode).val
        ELSE 0

OutOfMap(a) ==
    \/ a \in 16384 .. 32767
    \/ /\ a \in ROM_RANGE
       /\ (IF prg_rom.len = 16384 THEN (a - 32768) % 16384 ELSE a - 32768) >= prg_rom.len

\* C5: a read where nothing is mapped returns 0 without a panic, and a write
\* there changes no RAM and no ROM byte.
C5_OutOfMapRecovered ==
    [][/\ (ret'.op = "mem_read" /\ OutOfMap(ret'.addr)) => (ret'.val = 0 /\ ~panicked')
       /\ (ret'.op = "mem_write" /\ OutOfMap(ret'.addr))
              => (vram' = vram /\ prg_rom' = prg_rom /\ ~panicked')]_vars

\* the unmapped range was read while RAM held a non-zero byte
C5_Witness ==
    /\ ret.op = "mem_read" /\ ret.addr \in 16384 .. 32767
    /\ ret.val = 0 /\ vram # ZeroVram /\ ~panicked

\* C6: tick returns Halt exactly when the opcode it fetched is BRK and Continue
\* for every other opcode of the table; run returns Ok right after the tick that
\* returns Halt and returns the error of the tick that fails.
C6_TickHaltIffBrk ==
    /\ (ret.op = "tick" /\ ret.val \in DOMAIN OPCODES) =>
           ret.res = (IF ret.val = 0 THEN "Halt" ELSE "Continue")
    /\ (ret.op = "run" /\ ret.res # "Started" /\ ret.val \in DOMAIN OPCODES) =>
           /\ ret.res = (IF ret.val = 0 THEN "Ok" ELSE "Continue")
           /\ running = (ret.val # 0)
    /\ (ret.op = "run" /\ ret.res # "Started" /\ ret.val \notin DOMAIN OPCODES) =>
           (ret.res = "Err" /\ ~running)

\* C7: a tick that fetches a byte outside the table at address p returns
\* InvalidOpcode with that byte and offset p, leaves PC at p + 1 (mod 2^16) and
\* changes no register, no flag and no memory.
C7_InvalidOpcodeReport ==
    [][(ret'.op \in {"tick", "run"} /\ ret'.res \in {"InvalidOpcode", "Err"}) =>
           /\ ret'.val = mem_read(TheBus, pc).val
           /\ ret'.off = pc
           /\ pc' = (pc + 1) % 65536
           /\ UNCHANGED <<reg_a, reg_x, reg_y, sp, status, vram, prg_rom>>]_vars

\* the little-endian word at $FFFC
ResetVector == FromLeBytes(mem_read(TheBus, 65532).val, mem_read(TheBus, 65533).val)

\* C8: after Cpu::new and after reset, A = X = Y = 0, SP = $FD, the status is
\* I | U ($24: interrupt-disable and unused set, every other bit clear) and PC
\* is the little-endian word at $FFFC.
C8_ResetState ==
    ret.op \in {"new", "reset"} =>
        /\ reg_a = 0 /\ reg_x = 0 /\ reg_y = 0
        /\ sp = 253
        /\ status = 36
        /\ pc = ResetVector

\* C9: reset changes no RAM byte.
C9_ResetKeepsRam ==
    [][ret'.op = "reset" => vram' = vram]_vars

\* a reset happened while RAM held a non-zero byte
C9_Witness ==
    ret.op = "reset" /\ vram # ZeroVram

\* C10: a pop right after a push returns the pushed byte and restores SP, a
\* pop_u16 right after a push_u16 returns the pushed word and restores SP, for
\* every SP; SP moves modulo 256 and no stack operation panics.
C10_StackRoundTrip ==
    [][/\ (ret.op = "push" /\ ret'.op = "pop") => (ret'.val = ret.val /\ sp' = ret.addr)
       /\ (ret.op = "push_u16" /\ ret'.op = "pop_u16")
              => (ret'.val = ret.val /\ sp' = ret.addr)
       /\ ret'.op = "push" => sp' = (sp + 255) % 256
       /\ ret'.op = "pop" => sp' = (sp + 1) % 256
       /\ ret'.op = "push_u16" => sp' = (sp + 254) % 256
       /\ ret'.op = "pop_u16" => sp' = (sp + 2) % 256
       /\ ~panicked']_vars

\* a word pushed with SP = $00 was popped again: SP wrapped both ways
C10_Witness ==
    /\ ret.op = "pop_u16" /\ ret.res = "push_u16"
    /\ sp = 0 /\ ret.val # 0 /\ ~panicked

\* an operand byte read as a signed 8-bit offset
SignExtend8(o) == IF o >= 128 THEN o - 256 ELSE o

\* whether the branch instruction with this opcode is taken under this status
BranchTaken(opcode, st) ==
    CASE OPCODES[opcode].name = "bcc" -> ~Contains(st, CARRY)
      [] OPCODES[opcode].name = "bcs" -> Contains(st, CARRY)
      [] OPCODES[opcode].name = "beq" -> Contains(st, ZERO)
      [] OPCODES[opcode].name = "bne" -> ~Contains(st, ZERO)
      [] OPCODES[opcode].name = "bmi" -> Contains(st, NEGATIVE)
      [] OPCODES[opcode].name = "bpl" -> ~Contains(st, NEGATIVE)
      [] OPCODES[opcode].name = "bvs" -> Contains(st, OVERFLOW)
      [] OPCODES[opcode].name = "bvc" -> ~Contains(st, OVERFLOW)
      [] OTHER -> FALSE

\* the byte the bus holds k bytes after the PC
AtPc(k) == mem_read(TheBus, (pc + k) % 65536).val

\* C11: a tick that executes a taken branch (BCC, BCS, BEQ, BNE, BMI, BPL, BVC,
\* BVS) whose operand byte o is at operand_pc leaves PC at
\* (operand_pc + 1 + sign_extend_i8(o)) mod 2^16, also for o >= $80.
C11_TakenBranchTarget ==
    [][(/\ ret'.op \in {"tick", "run"} /\ ret'.res = "Continue"
        /\ ret'.val \in DOMAIN OPCODES
        /\ OPCODES[ret'.val].mode = "Relative"
        /\ BranchTaken(ret'.val, status))
           => pc' = (65536 + pc + 2 + SignExtend8(AtPc(1))) % 65536]_vars

\* the pointer operand of the instruction at the PC
PointerAtPc == FromLeBytes(AtPc(1), AtPc(2))

\* C12: a tick that executes JMP (indirect) through a pointer whose low byte is
\* $FF takes the low byte of the target from the pointer and the high byte from
\* offset $00 of the pointer's page.
C12_IndirectJmpPageWrap ==
    [][(/\ ret'.op \in {"tick", "run"} /\ ret'.res = "Continue"
        /\ ret'.val = 108
        /\ PointerAtPc % 256 = 255)
           => pc' = FromLeBytes(mem_read(TheBus, PointerAtPc).val,
                                mem_read(TheBus, PointerAtPc - 255).val)]_vars

\* C16: every opcode the table holds has an entry whose byte count is the
\* operand size of its addressing mode plus one; seen on every table opcode a
\* tick fetches.
C16_TableBytesMatchMode ==
    (ret.op \in {"tick", "run"} /\ ret.res # "Started" /\ ret.val \in DOMAIN OPCODES) =>
        ModeSize(OPCODES[ret.val].mode) + 1 = OPCODES[ret.val].bytes

\* the carry flag of a status, as a number
CarryOf(st) == IF Contains(st, CARRY) THEN 1 ELSE 0

\* C13: a tick that executes ADC with accumulator A, operand M and carry-in C
\* leaves A' = (A + M + C) mod 256, carry set iff A + M + C > 255, overflow set
\* iff ((A ^ A') & (M ^ A') & $80) # 0, Z set iff A' = 0 and N set iff bit 7 of
\* A' is set, whether or not the decimal flag is set.
C13_Adc ==
    [][(ret'.op = "tick" /\ ret'.opcode = 105) =>
          LET A == reg_a  M == AtPc(1)  C == CarryOf(status)
              sum == (A + M + C) % 256
          IN  /\ ~panicked'
              /\ reg_a' = sum
              /\ Contains(status', CARRY) = (A + M + C > 255)
              /\ Contains(status', OVERFLOW) =
                     (BitAnd(BitAnd(BitXor(A, sum), BitXor(M, sum)), 128) # 0)
              /\ Contains(status', ZERO) = (sum = 0)
              /\ Contains(status', NEGATIVE) = (sum >= 128)]_vars

\* an ADC in decimal mode with carry-in produced both a carry and an overflow
C13_Witness ==
    /\ ret.op = "tick" /\ ret.opcode = 105 /\ nsteps = 1
    /\ Contains(ret.st0, DECIMAL_MODE) /\ Contains(ret.st0, CARRY)
    /\ Contains(status, CARRY) /\ Contains(status, OVERFLOW)
    /\ reg_a = (ret.a0 + ret.m + 1) % 256

\* the Cpu about to execute ADC #(M xor $FF) where this one is about to execute SBC #M
AdcOfComplement ==
    adc([Self EXCEPT !.pc = (pc + 1) % 65536,
                     !.bus.prg_rom.data = Put(@, pc + 1 - 32768, BitXor(AtPc(1), 255))],
        "Immediate")

\* C14: a tick that executes SBC with operand M leaves the accumulator and the
\* flags that ADC with operand M xor $FF leaves from the same state; from A = 5,
\* M = 5 and carry clear it leaves A = $FF, N set, C clear, V clear.
C14_SbcIsAdcOfComplement ==
    [][(ret'.op = "tick" /\ ret'.opcode = 233) =>
          /\ ~panicked'
          /\ reg_a' = AdcOfComplement.reg_a
          /\ status' = AdcOfComplement.status
          /\ (reg_a = 5 /\ AtPc(1) = 5 /\ ~Contains(status, CARRY)) =>
                 /\ reg_a' = 255
                 /\ Contains(status', NEGATIVE)
                 /\ ~Contains(status', CARRY)
                 /\ ~Contains(status', OVERFLOW)]_vars

\* SBC #5 from A = 5 with carry clear left $FF
C14_Witness ==
    /\ ret.op = "tick" /\ ret.opcode = 233 /\ nsteps = 1
    /\ ret.a0 = 5 /\ ret.m = 5 /\ ~Contains(ret.st0, CARRY)
    /\ reg_a = 255

\* C15: ADC M with carry clear, then SBC M with carry set, returns the
\* accumulator to the value it had before the ADC, whatever carry the ADC gave.
C15_AdcSbcDuality ==
    (/\ ret.op = "tick" /\ ret.op1 = 105 /\ ~Contains(ret.st0, CARRY)
     /\ ret.opcode = 233 /\ nsteps = 3)
        => (~panicked /\ reg_a = ret.a0)

\* the ADC of such a run carried out, and the SBC brought the accumulator back
C15_Witness ==
    /\ ret.op = "tick" /\ ret.op1 = 105 /\ ~Contains(ret.st0, CARRY)
    /\ ret.opcode = 233 /\ nsteps = 3
    /\ ret.a0 + ret.m > 255 /\ ret.m # 0
    /\ reg_a = ret.a0

----------------------------------------------------------------------------
(* Claims about Rom::new *)

RawLen == ret.raw.len
RawByte(k) == Get(ret.raw.data, k)
Parsed == ret.op # "input"
TagBytes == <<RawByte(0), RawByte(1), RawByte(2), RawByte(3)>>
ValidMagic == RawLen >= 4 /\ TagBytes = <<78, 69, 83, 26>>
Flags7Nes2 == RawLen >= 8 /\ (RawByte(7) \div 4) % 4 # 0
NoRom == ret.out.prg_rom = NoSlice /\ ret.out.chr_rom = NoSlice /\ ret.out.mirroring = "None"
TrainerLen == IF (RawByte(6) \div 4) % 2 = 1 THEN 512 ELSE 0
PrgLen == 16384 * RawByte(4)
ChrLen == 8192 * RawByte(5)

\* C17, as stated: an input of at least 16 bytes whose first four bytes are
\* not "NES\x1A" gives InvalidMagicBytes, an input with a valid tag whose
\* Flags 7 has bit 2 or 3 set gives UnsupportedFormat, and neither gives a Rom.
C17_ErrorClassification ==
    Parsed =>
        /\ (RawLen >= 16 /\ TagBytes # <<78, 69, 83, 26>>)
              => (ret.out.res = "InvalidMagicBytes" /\ NoRom)
        /\ (ValidMagic /\ Flags7Nes2)
              => (ret.out.res = "UnsupportedFormat" /\ NoRom)

\* C17, amended: the same, for inputs of at least 16 bytes in both cases.
C17_ErrorClassificationFullHeader ==
    (Parsed /\ RawLen >= 16) =>
        /\ TagBytes # <<78, 69, 83, 26>>
              => (ret.out.res = "InvalidMagicBytes" /\ NoRom)
        /\ (ValidMagic /\ Flags7Nes2)
              => (ret.out.res = "UnsupportedFormat" /\ NoRom)

\* a full header with a valid tag and Flags 7 bit 2 set, bit 3 clear, was
\* rejected as unsupported
C17_Witness ==
    /\ ret.op = "Rom::new" /\ RawLen >= 16 /\ ValidMagic
    /\ RawByte(7) = 4
    /\ ret.out.res = "UnsupportedFormat"

\* the input ends before a field the image has to have: the tag, the rest of
\* the 16-byte header, or the trainer, PRG-ROM and CHR-ROM the header declares
EndsBeforeRequiredField ==
    \/ RawLen < 4
    \/ ValidMagic /\ RawLen < 16 /\ ~Flags7Nes2
    \/ ValidMagic /\ RawLen >= 16 /\ ~Flags7Nes2
           /\ RawLen < 16 + TrainerLen + PrgLen + ChrLen

\* C18: parsing any byte string ends in a Rom or a typed error, with
\* UnexpectedEOI whenever the input ends before a required field; the read
\* position only increases and stays within the input.
C18_ParserStaysInBounds ==
    Parsed =>
        /\ ret.out.res \in {"Ok", "InvalidMagicBytes", "UnsupportedFormat", "UnexpectedEOI"}
        /\ ret.out.pos <= RawLen
        /\ \A k \in 1 .. Len(ret.out.trace) :
              /\ ret.out.trace[k] <= RawLen
              /\ k > 1 => ret.out.trace[k - 1] <= ret.out.trace[k]
        /\ EndsBeforeRequiredField => ret.out.res = "UnexpectedEOI"

\* C19: the PRG-ROM of an accepted image is the bytes [16 + T, 16 + T + 16384 *
\* byte 4) and the CHR-ROM the 8192 * byte 5 bytes after it, T = 512 with the
\* trainer bit of Flags 6 and 0 without; no header byte is in the PRG-ROM.
C19_InesLayout ==
    (Parsed /\ ret.out.res = "Ok") =>
        /\ ret.out.prg_rom = [start |-> 16 + TrainerLen, len |-> PrgLen]
        /\ ret.out.chr_rom = [start |-> 16 + TrainerLen + PrgLen, len |-> ChrLen]
        /\ ret.out.prg_rom.len > 0 => ret.out.prg_rom.start >= 16

\* C20: an accepted header gives mapper (Flags6 >> 4) | (Flags7 & 0xF0), and
\* mirroring FourScreen with Flags 6 bit 3, else Vertical with bit 0, else
\* Horizontal.
C20_DerivedFields ==
    (Parsed /\ ret.out.res = "Ok") =>
        /\ ret.out.mapper = (RawByte(6) \div 16) + 16 * (RawByte(7) \div 16)
        /\ ret.out.mirroring =
              IF (RawByte(6) \div 8) % 2 = 1 THEN "FourScreen"
              ELSE IF RawByte(6) % 2 = 1 THEN "Vertical"
              ELSE "Horizontal"

\* an accepted header with the four-screen and vertical bits both set and
\* both mapper nibbles non-zero
C20_Witness ==
    /\ ret.op = "Rom::new" /\ ret.out.res = "Ok"
    /\ RawByte(6) = 57 /\ RawByte(7) = 240
    /\ ret.out.mapper = 243 /\ ret.out.mirroring = "FourScreen"

----------------------------------------------------------------------------
(* Claims about Cpu::load *)

\* C21: load(prog) of a program of any length n <= 65535 completes without
\* faulting; afterwards the byte read at 0x0600 + i is prog[i] for every
\* i < n, the registers other than the PC are as before, and the PC is 0x0600
\* if the word at $FFFC is zero and that word otherwise.
C21_LoadContract ==
    ret.op = "load" =>
        /\ ~panicked
        /\ \A i \in 0 .. ret.prog.len - 1 :
              LET r == mem_read(TheBus, (1536 + i) % 65536)
              IN  ~r.panic /\ r.val = Get(ret.prog.data, i)
        /\ [Regs(Self) EXCEPT !.pc = 0] = [ret.before EXCEPT !.pc = 0]
        /\ LET v == mem_read_u16(TheBus, 65532).val
           IN  pc = IF v = 0 THEN 1536 ELSE v

----------------------------------------------------------------------------
(* Claims about the tracer *)

\* C22: producing a trace line leaves A, X, Y, SP, PC, the status and every
\* RAM byte of the traced Cpu as they were, so a tick after the trace does
\* what a tick without it does.
C22_TraceReadOnly ==
    ret.op = "trace" =>
        /\ Regs(Self) = Regs(ret.cpu)
        /\ vram = ret.cpu.bus.vram
        /\ ret.res # "Panic" =>
              \A log \in BOOLEAN : tick(Self, log) = tick(ret.cpu, log)

\* a line was rendered for LDA $00FF with PC, registers and RAM in place
C22_Witness ==
    /\ ret.op = "trace" /\ ret.res = "Some" /\ ret.opcode = 173
    /\ ret.line = "8000  AD FF 00  LDA $00FF = 00                  A:00 X:01 Y:00 P:00 SP:FD"
    /\ pc = 32768 /\ reg_x = 1

\* C23: trace gives None exactly when the byte at PC is not in the opcode
\* table, and one line, without panicking, for every opcode of the table in
\* any addressing mode.
C23_TraceTotal ==
    ret.op = "trace" =>
        /\ ret.res = "None" <=> ret.opcode \notin DOMAIN OPCODES
        /\ ret.opcode \in DOMAIN OPCODES => ret.res = "Some"

----------------------------------------------------------------------------
(* Claims about the flag helper, subroutines and the status on the stack *)

BitOf(v, k) == (v \div (2 ^ k)) % 2
\* the byte in the stack cell of stack pointer s
StackCell(s) == Get(vram, 256 + (s % 256))

\* C25: after zero_and_neg_flags(v), Z is set iff v = 0 and N iff bit 7 of v
\* is set, whatever the status was; the other six bits are as before; and a
\* second call with the same v leaves the status of the first.
C25_SetNz ==
    ret.op = "zero_and_neg_flags" =>
        /\ BitOf(status, 1) = 1 <=> ret.val = 0
        /\ BitOf(status, 7) = 1 <=> ret.val >= 128
        /\ \A k \in {0, 2, 3, 4, 5, 6} : BitOf(status, k) = BitOf(ret.prev.status, k)
        /\ nsteps = 2 => status = ret.prev.status

\* both calls were made with v = $80 on a status that had Z, C and V set
C25_Witness ==
    /\ ret.op = "zero_and_neg_flags" /\ nsteps = 2
    /\ ret.val = 128 /\ ret.init.status = 67
    /\ status = 193

\* C26: a JSR whose opcode is at p pushes the word p + 2, high byte first,
\* decrements SP by 2 and sets the PC to its operand.
C26_JsrReturnAddress ==
    (ret.op = "tick" /\ ret.kind = "jsr" /\ ret.opcode = 32) =>
        LET p == ret.prev.pc
        IN  /\ ret.res = "Continue"
            /\ StackCell(ret.prev.sp) = HiByte((p + 2) % 65536)
            /\ StackCell(ret.prev.sp + 255) = LoByte((p + 2) % 65536)
            /\ sp = (ret.prev.sp + 254) % 256
            /\ pc = mem_read_u16(TheBus, p + 1).val

\* C27: when an RTS is executed with SP and the two stack bytes as a JSR at p
\* left them, the PC becomes p + 3 and SP is what it was before the JSR.
C27_JsrRtsPairing ==
    (ret.op = "tick" /\ ret.kind = "jsr" /\ nsteps = 2 /\ ret.opcode = 96) =>
        /\ ret.res = "Continue"
        /\ pc = (ret.init.pc + 3) % 65536
        /\ sp = ret.init.sp

\* JSR at $80FD with SP = 0, then RTS: back at $8100 with SP = 0
C27_Witness ==
    /\ ret.op = "tick" /\ ret.kind = "jsr" /\ nsteps = 2 /\ ret.opcode = 96
    /\ ret.init.pc = 33021 /\ ret.init.sp = 0
    /\ ret.prev.pc = 33025 /\ ret.prev.sp = 254
    /\ pc = 33024 /\ sp = 0

\* C28: a tick on opcode $40 pops the status, then the PC, low byte first
\* and without adjustment, raises SP by 3 and returns Continue.
C28_Rti ==
    (ret.op = "tick" /\ ret.kind = "rti" /\ ret.opcode = 64) =>
        LET s == ret.prev.sp
        IN  /\ ret.res = "Continue"
            /\ status = Get(ret.prev.bus.vram, 256 + ((s + 1) % 256))
            /\ pc = FromLeBytes(Get(ret.prev.bus.vram, 256 + ((s + 2) % 256)),
                                Get(ret.prev.bus.vram, 256 + ((s + 3) % 256)))
            /\ sp = (s + 3) % 256

\* C29: after PLP with the byte b on top of the stack, the status is b with
\* bit 4 cleared and bit 5 set, and SP is one more (mod 256).
C29_Plp ==
    (ret.op = "tick" /\ ret.kind = "plp" /\ ret.opcode = 40) =>
        LET b == Get(ret.prev.bus.vram, 256 + ((ret.prev.sp + 1) % 256))
        IN  /\ status = b - 16 * BitOf(b, 4) + 32 * (1 - BitOf(b, 5))
            /\ sp = (ret.prev.sp + 1) % 256

\* C30: PHP on a status s stores s | B | U at $0100 + SP, lowers SP by one
\* (mod 256) and leaves the status register s.
C30_Php ==
    (ret.op = "tick" /\ ret.kind = "php" /\ ret.opcode = 8) =>
        LET s == ret.prev.status
        IN  /\ StackCell(ret.prev.sp)
                  = s + 16 * (1 - BitOf(s, 4)) + 32 * (1 - BitOf(s, 5))
            /\ sp = (ret.prev.sp + 255) % 256
            /\ status = s

\* PHP with only the carry set and SP = 0: $31 at $0100, SP = $FF
C30_Witness ==
    /\ ret.op = "tick" /\ ret.kind = "php" /\ ret.opcode = 8
    /\ ret.prev.status = 1 /\ ret.prev.sp = 0
    /\ Get(vram, 256) = 49 /\ sp = 255 /\ status = 1

----------------------------------------------------------------------------
(* Claims about wrap-around, addressing modes, shifts and flag frames       *)

\* C34: for every address a, 65535 included, mem_read_u16(a) is
\* mem_read(a) | mem_read((a + 1) mod 65536) << 8, mem_write_u16(a, v) stores
\* the low byte at a and the high byte at (a + 1) mod 65536, and neither
\* faults on the increment (the unimplemented PPU window left aside).
C34_WordAccessWraps ==
    (ret.op \in {"mem_read_u16", "mem_write_u16"}
        /\ ret.addr \notin PPU_REGISTER_RANGE
        /\ (ret.addr + 1) % 65536 \notin PPU_REGISTER_RANGE) =>
        /\ ~panicked
        /\ ret.op = "mem_read_u16" =>
               ret.val = FromLeBytes(mem_read(TheBus, ret.addr).val,
                                     mem_read(TheBus, (ret.addr + 1) % 65536).val)
        /\ (ret.op = "mem_write_u16" /\ ret.addr \in RAM_RANGE
                /\ (ret.addr + 1) % 65536 \in RAM_RANGE) =>
               /\ mem_read(TheBus, ret.addr).val = LoByte(ret.val)
               /\ mem_read(TheBus, (ret.addr + 1) % 65536).val = HiByte(ret.val)

\* C40: every Rom that Rom::new returns, and the PRG-ROM of every Bus built
\* from it, is exactly 16384 or 32768 bytes long.
C40_PrgRomSize ==
    (Parsed /\ ret.out.res = "Ok") =>
        /\ ret.out.prg_rom.len \in {PRG_ROM_PAGE_SIZE, 2 * PRG_ROM_PAGE_SIZE}
        /\ ret.op = "Cpu::new" =>
               prg_rom.len \in {PRG_ROM_PAGE_SIZE, 2 * PRG_ROM_PAGE_SIZE}

\* C39: for the modes the tracer formats (Immediate, ZeroPage, ZeroPageX,
\* IndirectX, Relative, Absolute) the address it computes equals the one
\* get_op_addr gives on a clone at PC + 1, so its assert_eq! holds, and
\* neither PC + 1 nor the address shown for a branch overflows (bus reads in
\* the unimplemented PPU window left aside).
C39_TracerAddressAgrees ==
    (ret.op = "trace" /\ ret.opcode \in DOMAIN OPCODES) =>
        LET c    == ret.cpu
            e    == OPCODES[ret.opcode]
            pc1  == AddU16(c.pc, 1)
            t    == OperandText(c, e, ret.opcode, pc1.val)
            real == get_op_addr([c EXCEPT !.pc = pc1.val], e.mode)
        IN  e.mode \in {"Immediate", "ZeroPage", "ZeroPageX", "IndirectX",
                        "Relative", "Absolute"} =>
                /\ ~pc1.panic
                /\ e.mode = "Relative" => ~t.panic
                /\ (~t.panic /\ ~real.c.panicked) => t.got = real.val

\* C31: a tick that executes BRK at PC = p sets B, leaves PC = (p + 2) mod
\* 65536, changes no other flag, no register, no RAM byte and not SP, and
\* returns the halt signal.
C31_BrkFrame ==
    (ret.op = "tick" /\ mem_read(ret.prev.bus, ret.prev.pc).val = 0) =>
        /\ ret.res = "Halt"
        /\ status = BitOr(ret.prev.status, BREAK)
        /\ pc = (ret.prev.pc + 2) % 65536
        /\ reg_a = ret.prev.reg_a /\ reg_x = ret.prev.reg_x /\ reg_y = ret.prev.reg_y
        /\ sp = ret.prev.sp
        /\ vram = ret.prev.bus.vram

\* C35: the PC wraps modulo 65536 wherever it is advanced: no tick of a table
\* opcode started at the end of the address space faults (RTI, which is not
\* implemented, left aside), and an instruction that neither jumps nor
\* branches ends at (p + 1 + operand size) mod 65536, BRK one byte further.
C35_PcWraps ==
    (ret.op = "tick" /\ ret.kind = "wrap") =>
        LET code == mem_read(ret.prev.bus, ret.prev.pc).val
        IN  (code \in DOMAIN OPCODES /\ code # 64) =>
                /\ ~panicked
                /\ (OPCODES[code].mode # "Relative" /\ code \notin {76, 108, 32, 96}) =>
                       pc = (ret.prev.pc + 1 + ModeSize(OPCODES[code].mode)
                                + (IF code = 0 THEN 1 ELSE 0)) % 65536

\* C32: get_op_addr(IndirectX) with the operand byte d at the PC gives the
\* word whose low byte is at (d + X) mod 256 and whose high byte is at
\* (d + X + 1) mod 256 in the zero page, and advances the PC by 1.
C32_IndirectX ==
    (ret.op = "get_op_addr" /\ ret.mode = "IndirectX") =>
        LET d == Get(ret.prev.bus.vram, ret.prev.pc)
            x == ret.prev.reg_x
        IN  /\ ~panicked
            /\ ret.val = FromLeBytes(Get(ret.prev.bus.vram, (d + x) % 256),
                                     Get(ret.prev.bus.vram, (d + x + 1) % 256))
            /\ pc = ret.prev.pc + 1

\* C33: get_op_addr(IndirectY) with the operand byte d at the PC gives
\* (base + Y) mod 65536, where base has its low byte at d and its high byte
\* at (d + 1) mod 256 in the zero page; the PC advances by 1 and nothing
\* faults when the sum overflows.
C33_IndirectY ==
    (ret.op = "get_op_addr" /\ ret.mode = "IndirectY") =>
        LET d    == Get(ret.prev.bus.vram, ret.prev.pc)
            base == FromLeBytes(Get(ret.prev.bus.vram, d),
                                Get(ret.prev.bus.vram, (d + 1) % 256))
        IN  /\ ~panicked
            /\ ret.val = (base + ret.prev.reg_y) % 65536
            /\ pc = ret.prev.pc + 1

\* C36: a get_op_addr(mode) that returns has advanced the PC by the operand
\* size of the mode; a tick that returns, of a table opcode other than JMP,
\* JSR, RTS, RTI, BRK and a taken branch, started at PC = p, ends with
\* PC = p + 1 + operand size (mod 65536), a branch not taken included.
C36_OperandConsumption ==
    /\ (ret.op = "get_op_addr" /\ ~panicked) =>
           pc = (ret.prev.pc + ModeSize(ret.mode)) % 65536
    /\ (ret.op = "tick" /\ ~panicked /\ ret.opcode \in DOMAIN OPCODES
            /\ ret.opcode \notin {76, 108, 32, 96, 64, 0}
            /\ ~BranchTaken(ret.opcode, ret.prev.status)) =>
           pc = (ret.prev.pc + 1 + ModeSize(OPCODES[ret.opcode].mode)) % 65536

\* LDA $0010 at $8000 ends at $8003, and a BPL not taken at $8002
C36_Witness ==
    /\ ret.op = "tick" /\ ~panicked /\ ret.prev.pc = 32768
    /\ \/ ret.opcode = 173 /\ pc = 32771
       \/ ret.opcode = 16 /\ Contains(ret.prev.status, NEGATIVE) /\ pc = 32770

\* C37: for every value v and carry-in c, on the accumulator and on a memory
\* cell, ASL gives (v << 1) mod 256 and LSR v >> 1, ROL and ROR the same with
\* c moved into bit 0 and bit 7; C becomes the bit shifted out (bit 7 of v
\* going left, bit 0 going right), Z and N are those of the new value (N is
\* clear after LSR); the memory form writes the new value to the cell and
\* leaves A, the accumulator form changes no memory.
C37_Shifts ==
    (ret.op = "tick" /\ ret.kind = "shift") =>
        LET code  == mem_read(ret.prev.bus, ret.prev.pc).val
            accum == code \in {10, 74, 42, 106}
            left  == code \in {10, 42, 6, 38}
            rot   == code \in {42, 106, 38, 102}
            v     == IF accum THEN ret.prev.reg_a ELSE Get(ret.prev.bus.vram, 16)
            cin   == IF rot THEN BitOf(ret.prev.status, 0) ELSE 0
            new   == IF left THEN ((2 * v) % 256) + cin ELSE (v \div 2) + 128 * cin
            cout  == IF left THEN BitOf(v, 7) ELSE BitOf(v, 0)
        IN  /\ ~panicked
            /\ BitOf(status, 0) = cout
            /\ BitOf(status, 1) = (IF new = 0 THEN 1 ELSE 0)
            /\ BitOf(status, 7) = BitOf(new, 7)
            /\ code \in {74, 70} => BitOf(status, 7) = 0
            /\ accum => (reg_a = new /\ vram = ret.prev.bus.vram)
            /\ ~accum => (Get(vram, 16) = new /\ reg_a = ret.prev.reg_a
                            /\ \A k \in DOMAIN vram \cup DOMAIN ret.prev.bus.vram :
                                  k # 16 => Get(vram, k) = Get(ret.prev.bus.vram, k))

\* ROR on the cell $10 holding 1 with the carry set: the cell becomes $80,
\* C and N are set, A keeps $FE
C37_Witness ==
    /\ ret.op = "tick" /\ ret.kind = "shift" /\ ret.opcode = 102
    /\ Get(ret.prev.bus.vram, 16) = 1 /\ ret.prev.status = 1
    /\ Get(vram, 16) = 128 /\ status = 129 /\ reg_a = 254 /\ ~panicked

\* the status bits the instruction of this name is documented to affect
\* (every bit for BRK, PLP and RTI, which the frame does not cover)
AffectedBits(name) ==
    CASE name \in {"lda", "ldx", "ldy", "tax", "tay", "txa", "tya", "tsx",
                   "inc", "dec", "inx", "iny", "dex", "dey",
                   "and", "eor", "ora", "pla"} -> {1, 7}
      [] name \in {"cmp", "cpx", "cpy", "asl", "lsr", "rol", "ror"} -> {0, 1, 7}
      [] name = "bit" -> {1, 6, 7}
      [] name \in {"adc", "sbc"} -> {0, 1, 6, 7}
      [] name \in {"sec", "clc"} -> {0}
      [] name \in {"sed", "cld"} -> {3}
      [] name \in {"sei", "cli"} -> {2}
      [] name = "clv" -> {6}
      [] name \in {"brk", "plp", "rti"} -> 0 .. 7
      [] OTHER -> {}

\* C38: a tick of a table opcode leaves every status bit its instruction is
\* not documented to affect: loads, transfers to A/X/Y, increments,
\* decrements, AND/EOR/ORA and PLA change only Z and N; compares and shifts
\* only C, Z, N; BIT only Z, N, V; ADC/SBC only C, Z, V, N; the flag
\* instructions only their bit; stores, TXS, PHA, PHP, JMP, JSR, RTS, NOP and
\* branches none.
C38_FlagFrame ==
    (ret.op = "tick" /\ ~panicked /\ ret.opcode \in DOMAIN OPCODES) =>
        \A k \in (0 .. 7) \ AffectedBits(OPCODES[ret.opcode].name) :
            BitOf(status, k) = BitOf(ret.prev.status, k)

\* LDA #$10 with every flag set clears Z and N and keeps the other six
C38_Witness ==
    /\ ret.op = "tick" /\ ~panicked /\ ret.opcode = 169
    /\ ret.prev.status = 255 /\ reg_a = 16 /\ status = 125

====
